---- MODULE Spec2Model ----
(***************************************************************************)
(* A model of the go-oryx load balancers: the HLS+ affinity proxy of       *)
(* httplb, the TCP listener multiplexer of kernel, and the RTMP stream     *)
(* proxy of rtmplb.  Each component has its own next-state relation and    *)
(* specification; the variables of the other components stay at their      *)
(* initial values.                                                         *)
(***************************************************************************)
EXTENDS Integers, Sequences, FiniteSets, TLC

(***************************************************************************)
(* Bounds of the model.                                                    *)
(***************************************************************************)
\* Number of control API requests made to the two balancers together.
MaxApiCalls == 4
\* Number of virtual connections the HLS+ proxy may create.
MaxConns == 3
\* Last tick of the HLS+ clock.
MaxTime == 2

(***************************************************************************)
(* Program constants.                                                      *)
(***************************************************************************)
\* hlsPlusSessionTimeout, in clock ticks (one tick stands for 60 seconds).
hlsPlusSessionTimeout == 2

\* Values of the shp_uuid and shp_xpsid/X-Playback-Session-Id identifiers.
\* Both are Go strings, so one value may be used as either; "" is absent.
Ids == {"k1"}
OptIds == Ids \cup {""}
\* Values of r.RemoteAddr; the HTTP server always sets it.
Addrs == {"a1", "a2"}
\* The goroutines of the HTTP server that serve HLS+ requests step by step.
Servers == {"G1", "G2"}

VARIABLES
    \* ---- httplb: hlsPlusProxy ----
    vconns,        \* the hlsPlusVirtualConnection objects created so far
    virtualConns,  \* map uuid -> virtual connection (index into vconns)
    appConns,      \* map xpsid -> virtual connection
    tcpConns,      \* map remoteAddr -> virtual connection
    now,           \* time.Now(), in ticks
    hlsLast,       \* history: the last operation of the proxy and its result
    uuidSeen,      \* history: per uuid, the session of the last request
                   \* carrying it and whether that session stayed live since
    addrSeen,      \* history: the address and the session of the last request
                   \* without identifiers, and whether it stayed live since
    hlsLock,       \* holder of v.lock, or "free"
    rpTransport,   \* v.rp.Transport: the transport set last (0: nil)
    fwd,           \* per goroutine serving an HLS+ request step by step: its
                   \* position and the virtual connection it identified
    fwdLast,       \* history: the virtual connection and the transport of
                   \* the request such a goroutine forwarded last, until the
                   \* next request enters
    \* ---- kernel: TcpListeners ----
    listeners,     \* per address: "unbound", or the socket "open" or "closed"
    disposed,      \* v.disposed
    disposeLock,   \* holder of v.disposeLock, or "free"
    closing,       \* number of values buffered in v.closing (capacity 1)
    chansClosed,   \* v.conns and v.errors have been closed
    wait,          \* counter of the WaitGroup v.wait
    listenRes,     \* result of ListenTCP: "none" before it was called
    loop,          \* per address: position of the acceptFrom goroutine
    acc,           \* per caller of AcceptTCP: position, result, history
    cls,           \* per caller of Close: position, result, history
    lsnHist,       \* history: a Close call has returned, how many returned nil
                   \* (counted up to 2), a socket or channel was closed twice
    \* ---- rtmplb: proxy ----
    ports,         \* v.ports
    activePort,    \* v.activePort
    h,             \* serveRtmp of one accepted connection: position, loop
                   \* counter i, backend, err, and counts of what it did;
                   \* first is the v.activePort its first attempt read and
                   \* target the port of its last dial (-1: none yet)
    task,          \* the two copy goroutines: position of each
    rclosing,      \* number of values buffered in serveRtmp's closing (capacity 1)
    rwait,         \* counter of serveRtmp's WaitGroup
    sock,          \* the client and the backend socket were closed
    rtmpHist,      \* history: activePort was positive at some time of the
                   \* handling; a byte was forwarded; serveRtmp panicked
    crashed,       \* the rtmplb process was terminated by a panic
    \* ---- the control API of both balancers, request by request ----
    httpPorts,     \* v.ports of the proxy of httplb
    httpActivePort, \* v.activePort of the proxy of httplb
    api,           \* per HTTP request goroutine: the balancer it runs in,
                   \* position, query value, parsed port, the slice it read
                   \* for append, the response, and history: it wrote the
                   \* proxy's state; its port was in v.ports when it returned
    apiCalls,      \* number of control API requests made so far
    \* ---- kernel: NewTcpListeners ----
    newArgs,       \* the address list NewTcpListeners was called with last
    newRes,        \* its error: "none" before a call, "nil" for success
    \* ---- rtmplb: main ----
    mainPc,        \* position of main, from its final select on
    mainTask,      \* position of the accepter and of the API goroutine
    mainSignal,    \* the signal goroutine: position, signals received
    mainClosing,   \* number of values buffered in main's closing (capacity 1)
    asq,           \* number of values buffered in asq (capacity 1)
    mainWait,      \* counter of main's WaitGroup
    mainListeners, \* listener and apiListener: "open" or "closed"
    \* ---- the port allocator ----
    poolFree,      \* the free ports
    poolAllocated, \* the ports currently handed out
    poolLast,      \* history: the last operation, its argument, the ports
                   \* and the error it returned, whether Free was ever called
    \* ---- app: Server ----
    srvState,      \* s.closed: "Init", "Ready", "Running" or "Closed"
    srvLock,       \* holder of s.lock, or "free"
    srvQuit,       \* number of values buffered in s.quit (capacity 1)
    srvClosing,    \* number of values buffered in s.closing (capacity 1)
    srvWg,         \* counter of s.wg: the workers GFork started, still running
    srvRun,        \* position of the goroutine that calls Run
    srvClose,      \* per caller of Close: position, and the state it found
    srvLast,       \* history: the last lifecycle call that returned or
                   \* panicked, its outcome, and whether Initialize forked
    \* ---- httplb: serveHttpStream ----
    httpStreamTransport, \* v.httpStreamProxy.Transport
    transportsCreated,   \* number of calls of createHttpTransport so far; the
                         \* n-th call returns the new object n
    stream,        \* per goroutine serving a stream request: position, the
                   \* path, and the transport it stored in the reverse proxy
    streamCalls,   \* number of stream requests made so far
    streamLast     \* history: of the request forwarded last, the path, the
                   \* transport it stored and the transport it was sent on

hlsVars == <<vconns, virtualConns, appConns, tcpConns, now, hlsLast, uuidSeen,
             addrSeen, hlsLock, rpTransport, fwd, fwdLast>>

lsnVars == <<listeners, disposed, disposeLock, closing, chansClosed, wait,
             listenRes, loop, acc, cls, lsnHist>>

rtmpVars == <<ports, activePort, h, task, rclosing, rwait, sock, rtmpHist, crashed>>

apiVars == <<httpPorts, httpActivePort, api, apiCalls>>

newVars == <<newArgs, newRes>>

mainVars == <<mainPc, mainTask, mainSignal, mainClosing, asq, mainWait, mainListeners>>

poolVars == <<poolFree, poolAllocated, poolLast>>

srvVars == <<srvState, srvLock, srvQuit, srvClosing, srvWg, srvRun, srvClose, srvLast>>

streamVars == <<httpStreamTransport, transportsCreated, stream, streamCalls, streamLast>>

vars == <<hlsVars, lsnVars, rtmpVars, apiVars, newVars, mainVars, poolVars, srvVars,
         streamVars>>

(***************************************************************************)
(* Go maps: a function whose domain is the set of keys present.  A lookup  *)
(* of an absent key yields nil, written 0.                                 *)
(***************************************************************************)
EmptyMap == [k \in {} |-> 0]
MapGet(m, k) == IF k \in DOMAIN m THEN m[k] ELSE 0
MapPut(m, k, v) == [x \in (DOMAIN m) \cup {k} |-> IF x = k THEN v ELSE m[x]]
MapDel(m, k) == [x \in (DOMAIN m) \ {k} |-> m[x]]

(***************************************************************************)
(* httplb: the HLS+ affinity proxy.                                        *)
(***************************************************************************)
\* The proxy's steps leave the other components alone.
HlsFrame == UNCHANGED <<lsnVars, rtmpVars, apiVars, newVars, mainVars, poolVars, srvVars,
    streamVars>>

\* NewHlsPlusVirtualConnection: the keys of the creating request, now, and
\* the transport createHttpTransport() returns, a new object tr.
NewHlsPlusVirtualConnection(uuid, xpsid, addr, t, tr) ==
    [uuid |-> uuid, xpsid |-> xpsid, remoteAddr |-> addr, lastUpdate |-> t,
     transport |-> tr]

\* The uuid step of the identification in serve.
IdentifyByUuid(uuid) ==
    IF uuid # "" THEN MapGet(virtualConns, uuid) ELSE 0

\* The xpsid step: taken when an xpsid is given and the uuid step missed.
\* The code indexes appConns with uuid, not with xpsid.
IdentifyByXpsid(uuid, xpsid, found) ==
    IF xpsid # "" /\ found = 0 THEN MapGet(appConns, uuid) ELSE found

\* The address step: taken when the earlier steps missed.
IdentifyByAddr(addr, found) ==
    IF addr # "" /\ found = 0 THEN MapGet(tcpConns, addr) ELSE found

\* The virtual connection serve identifies for a request; 0 when none.
Identify(uuid, xpsid, addr) ==
    IdentifyByAddr(addr, IdentifyByXpsid(uuid, xpsid, IdentifyByUuid(uuid)))

\* The history record of an operation that serves no request.
HlsNoRequest(op) ==
    [op |-> op, uuid |-> "", xpsid |-> "", conn |-> 0, prevConn |-> 0, xpsidConn |-> 0]

\* cleanup's test of one virtual connection: it is idle at time t when its
\* lastUpdate is not after die = t - hlsPlusSessionTimeout.
IsIdle(conn, t) == ~(conn.lastUpdate > t - hlsPlusSessionTimeout)

\* The virtual connection serve works with: the one identified, or the
\* one it creates.
ServedConn(uuid, xpsid, addr) ==
    IF Identify(uuid, xpsid, addr) = 0 THEN Len(vconns) + 1
    ELSE Identify(uuid, xpsid, addr)

\* v.lock is taken although it is held.
LockIgnored == TRUE

\* v.lock can be taken.
LockAvailable == hlsLock = "free"

\* serve from the identification to v.rp.Transport = vconn.transport: the
\* virtual connection is identified or created (the n-th one created gets
\* the n-th transport), lastUpdate is set, the three maps are updated and
\* the reverse proxy is given the connection's transport.
ServeUpdate(uuid, xpsid, addr) ==
    LET found == Identify(uuid, xpsid, addr)
        create == found = 0
        c == ServedConn(uuid, xpsid, addr)
        objs == IF create
                THEN Append(vconns, NewHlsPlusVirtualConnection(uuid, xpsid, addr, now,
                                                                Len(vconns) + 1))
                ELSE vconns
    IN  /\ (create => Len(vconns) < MaxConns)
        /\ vconns' = [objs EXCEPT ![c].lastUpdate = now]
        /\ virtualConns' = IF uuid # "" THEN MapPut(virtualConns, uuid, c) ELSE virtualConns
        /\ appConns' = IF xpsid # "" THEN MapPut(appConns, xpsid, c) ELSE appConns
        /\ tcpConns' = IF addr # "" THEN MapPut(tcpConns, addr, c) ELSE tcpConns
        /\ rpTransport' = objs[c].transport
        /\ UNCHANGED now

\* hlsPlusProxy.serve, under the proxy's lock from entry to return.
HlsServe(uuid, xpsid, addr) ==
    LET c == ServedConn(uuid, xpsid, addr)
    IN  /\ LockAvailable
        /\ ServeUpdate(uuid, xpsid, addr)
        /\ hlsLast' = [op |-> "serve", uuid |-> uuid, xpsid |-> xpsid, conn |-> c,
                       prevConn |-> IF uuid # "" /\ uuidSeen[uuid].live
                                    THEN uuidSeen[uuid].conn ELSE 0,
                       xpsidConn |-> IF xpsid # "" THEN MapGet(appConns, xpsid) ELSE 0]
        /\ uuidSeen' = IF uuid # ""
                       THEN [uuidSeen EXCEPT ![uuid] = [conn |-> c, live |-> TRUE]]
                       ELSE uuidSeen
        /\ addrSeen' = IF uuid = "" /\ xpsid = ""
                       THEN [addr |-> addr, conn |-> c, live |-> TRUE]
                       ELSE addrSeen
        /\ UNCHANGED <<hlsLock, fwd, fwdLast>>
        /\ HlsFrame

\* A goroutine of the HTTP server enters serve: it takes v.lock and runs
\* serve up to v.rp.Transport = vconn.transport.
ServeEnter(g, uuid, xpsid, addr) ==
    /\ fwd[g].pc = "idle"
    /\ LockAvailable
    /\ hlsLock' = g
    /\ ServeUpdate(uuid, xpsid, addr)
    /\ fwd' = [fwd EXCEPT ![g] = [pc |-> "forward", conn |-> ServedConn(uuid, xpsid, addr)]]
    /\ fwdLast' = [conn |-> 0, used |-> 0]
    /\ UNCHANGED <<hlsLast, uuidSeen, addrSeen>>
    /\ HlsFrame

\* v.rp.ServeHTTP(w, r): the reverse proxy forwards the request with the
\* transport v.rp.Transport holds now; serve returns and the deferred
\* v.lock.Unlock() runs.
ServeForward(g) ==
    /\ fwd[g].pc = "forward"
    /\ fwdLast' = [conn |-> fwd[g].conn, used |-> rpTransport]
    /\ fwd' = [fwd EXCEPT ![g] = [pc |-> "idle", conn |-> 0]]
    /\ hlsLock' = IF hlsLock = g THEN "free" ELSE hlsLock
    /\ UNCHANGED <<vconns, virtualConns, appConns, tcpConns, now, hlsLast, uuidSeen,
                   addrSeen, rpTransport>>
    /\ HlsFrame

\* The body of the loop of cleanup for the entry of tcpConns under key k.
\* m is the triple of maps so far.  An entry deleted before the iteration
\* reaches it is not produced.
CleanupVisit(m, k, t) ==
    IF k \notin DOMAIN m.tcp THEN m
    ELSE LET conn == vconns[m.tcp[k]]
         IN  IF ~IsIdle(conn, t) THEN m
             ELSE [tcp |-> IF conn.remoteAddr # "" THEN MapDel(m.tcp, conn.remoteAddr) ELSE m.tcp,
                   app |-> IF conn.xpsid # "" THEN MapDel(m.app, conn.xpsid) ELSE m.app,
                   virt |-> IF conn.uuid # "" THEN MapDel(m.virt, conn.uuid) ELSE m.virt]

\* The loop of cleanup over tcpConns in the iteration order `order`.
RECURSIVE CleanupLoop(_, _, _)
CleanupLoop(m, order, t) ==
    IF order = <<>> THEN m
    ELSE CleanupLoop(CleanupVisit(m, Head(order), t), Tail(order), t)

\* The orders in which a range over a map with keys in Addrs may run.
IterationOrders == {o \in [1..Cardinality(Addrs) -> Addrs] :
                      \A i, j \in DOMAIN o : i # j => o[i] # o[j]}

\* hlsPlusProxy.cleanup, under the proxy's lock: one idle sweep.
HlsCleanup ==
    \E order \in IterationOrders :
        LET m == CleanupLoop([tcp |-> tcpConns, app |-> appConns, virt |-> virtualConns],
                             order, now)
        IN  /\ LockAvailable
            /\ UNCHANGED <<addrSeen, hlsLock, rpTransport, fwd, fwdLast>>
            /\ tcpConns' = m.tcp
            /\ appConns' = m.app
            /\ virtualConns' = m.virt
            /\ hlsLast' = HlsNoRequest("cleanup")
            /\ UNCHANGED <<vconns, now, uuidSeen>>
            /\ HlsFrame

\* Time passes.  A session recorded in uuidSeen that becomes idle is from
\* then on no longer one that stayed live since its last uuid request.
HlsTick ==
    /\ now < MaxTime
    /\ now' = now + 1
    /\ uuidSeen' = [u \in Ids |->
                      [uuidSeen[u] EXCEPT !.live =
                          /\ uuidSeen[u].live
                          /\ uuidSeen[u].conn # 0
                          /\ ~IsIdle(vconns[uuidSeen[u].conn], now + 1)]]
    /\ addrSeen' = [addrSeen EXCEPT !.live =
                         /\ addrSeen.live
                         /\ ~IsIdle(vconns[addrSeen.conn], now + 1)]
    /\ hlsLast' = HlsNoRequest("tick")
    /\ UNCHANGED <<vconns, virtualConns, appConns, tcpConns, hlsLock, rpTransport,
                   fwd, fwdLast>>
    /\ HlsFrame

HlsInit ==
    /\ vconns = <<>>
    /\ virtualConns = EmptyMap
    /\ appConns = EmptyMap
    /\ tcpConns = EmptyMap
    /\ now = 0
    /\ hlsLast = HlsNoRequest("init")
    /\ uuidSeen = [u \in Ids |-> [conn |-> 0, live |-> FALSE]]
    /\ addrSeen = [addr |-> "", conn |-> 0, live |-> FALSE]
    /\ hlsLock = "free"
    /\ rpTransport = 0
    /\ fwd = [g \in Servers |-> [pc |-> "idle", conn |-> 0]]
    /\ fwdLast = [conn |-> 0, used |-> 0]

HlsRequest == \E uuid \in OptIds, xpsid \in OptIds, addr \in Addrs : HlsServe(uuid, xpsid, addr)

HlsNext == HlsRequest \/ HlsCleanup \/ HlsTick

\* The proxy with its requests served step by step by concurrent goroutines.
HlsFwdNext ==
    \/ \E g \in Servers, uuid \in OptIds, xpsid \in OptIds, addr \in Addrs :
          ServeEnter(g, uuid, xpsid, addr)
    \/ \E g \in Servers : ServeForward(g)
    \/ HlsCleanup
    \/ HlsTick

(***************************************************************************)
(* kernel: TcpListeners, the listener multiplexer.                         *)
(***************************************************************************)
\* The configured addresses, v.addrs, by position.
NumAddrs == 2
Addresses == 1..NumAddrs
\* The goroutines that call AcceptTCP, and those that call Close.
Accepters == {"A1", "A2"}
Closers == {"C1", "C2"}

\* The listener's steps leave the other components alone.
LsnFrame == UNCHANGED <<hlsVars, rtmpVars, apiVars, newVars, mainVars, poolVars, srvVars,
    streamVars>>

\* NewTcpListeners: nothing bound, channels open, closing empty.
LsnInit ==
    /\ listeners = [i \in Addresses |-> "unbound"]
    /\ disposed = FALSE
    /\ disposeLock = "free"
    /\ closing = 0
    /\ chansClosed = FALSE
    /\ wait = 0
    /\ listenRes = "none"
    /\ loop = [i \in Addresses |-> "none"]
    /\ acc = [a \in Accepters |-> [pc |-> "idle", res |-> "none", late |-> FALSE]]
    /\ cls = [c \in Closers |-> [pc |-> "idle", res |-> "none", late |-> FALSE]]
    /\ lsnHist = [closeDone |-> FALSE, nilCloses |-> 0, doubleClose |-> FALSE]

\* ListenTCP without the check of v.disposed.
ListenTCPUnchecked(failAt) ==
    /\ listenRes = "none" \/ disposed
    /\ disposeLock = "free"
    /\ listeners' = [i \in Addresses |-> IF i < failAt THEN "open" ELSE listeners[i]]
    /\ IF failAt \in Addresses
       THEN listenRes' = "error" /\ UNCHANGED loop
       ELSE listenRes' = "nil" /\ loop' = [i \in Addresses |-> "launched"]
    /\ UNCHANGED <<disposed, disposeLock, closing, chansClosed, wait, acc, cls, lsnHist>>
    /\ LsnFrame

\* ListenTCP with the accept goroutines created for the addresses bound so
\* far, whether or not a later address failed.
ListenTCPLaunchesBound(failAt) ==
    /\ listenRes = "none" \/ disposed
    /\ disposeLock = "free"
    /\ IF disposed
       THEN /\ listenRes' = "ListenerDisposed"
            /\ UNCHANGED <<listeners, loop>>
       ELSE /\ listeners' = [i \in Addresses |-> IF i < failAt THEN "open" ELSE listeners[i]]
            /\ loop' = [i \in Addresses |-> IF i < failAt THEN "launched" ELSE loop[i]]
            /\ listenRes' = IF failAt \in Addresses THEN "error" ELSE "nil"
    /\ UNCHANGED <<disposed, disposeLock, closing, chansClosed, wait, acc, cls, lsnHist>>
    /\ LsnFrame

\* ListenTCP, under disposeLock from entry to return: the first call, or a
\* call on a disposed listener.  net.Listen succeeds for the addresses
\* before `failAt` and fails for it; failAt = NumAddrs + 1 when every
\* address binds.  The accept goroutines are created only then.
ListenTCP(failAt) ==
    /\ listenRes = "none" \/ disposed
    /\ disposeLock = "free"
    /\ IF disposed
       THEN /\ listenRes' = "ListenerDisposed"
            /\ UNCHANGED <<listeners, loop>>
       ELSE /\ listeners' = [i \in Addresses |-> IF i < failAt THEN "open" ELSE listeners[i]]
            /\ IF failAt \in Addresses
               THEN listenRes' = "error" /\ UNCHANGED loop
               ELSE listenRes' = "nil" /\ loop' = [i \in Addresses |-> "launched"]
    /\ UNCHANGED <<disposed, disposeLock, closing, chansClosed, wait, acc, cls, lsnHist>>
    /\ LsnFrame

\* acceptFrom: the goroutine starts with v.wait.Add(1).
LoopAdd(i) ==
    /\ loop[i] = "launched"
    /\ wait' = wait + 1
    /\ loop' = [loop EXCEPT ![i] = "accept"]
    /\ UNCHANGED <<listeners, disposed, disposeLock, closing, chansClosed, listenRes,
                   acc, cls, lsnHist>>
    /\ LsnFrame

\* doAcceptFrom: l.AcceptTCP() returns a connection.
LoopAcceptConn(i) ==
    /\ loop[i] = "accept"
    /\ listeners[i] = "open"
    /\ loop' = [loop EXCEPT ![i] = "gotconn"]
    /\ UNCHANGED <<listeners, disposed, disposeLock, closing, chansClosed, wait,
                   listenRes, acc, cls, lsnHist>>
    /\ LsnFrame

\* doAcceptFrom: l.AcceptTCP() fails on an open socket (a transient error).
LoopAcceptErr(i) ==
    /\ loop[i] = "accept"
    /\ listeners[i] = "open"
    /\ loop' = [loop EXCEPT ![i] = "goterr"]
    /\ UNCHANGED <<listeners, disposed, disposeLock, closing, chansClosed, wait,
                   listenRes, acc, cls, lsnHist>>
    /\ LsnFrame

\* doAcceptFrom: l.AcceptTCP() fails because the socket was closed.
LoopAcceptClosed(i) ==
    /\ loop[i] = "accept"
    /\ listeners[i] = "closed"
    /\ loop' = [loop EXCEPT ![i] = "goterr"]
    /\ UNCHANGED <<listeners, disposed, disposeLock, closing, chansClosed, wait,
                   listenRes, acc, cls, lsnHist>>
    /\ LsnFrame

\* doAcceptFrom after a failed accept that offers the error whether or not
\* the listener is disposed.
LoopReadDisposedIgnored(i) ==
    /\ loop[i] = "goterr"
    /\ loop' = [loop EXCEPT ![i] = "senderr"]
    /\ UNCHANGED <<listeners, disposed, disposeLock, closing, chansClosed, wait,
                   listenRes, acc, cls, lsnHist>>
    /\ LsnFrame

\* doAcceptFrom after a failed accept: when v.disposed the error becomes
\* ListenerDisposed, the deferred select is skipped and acceptFrom returns
\* (wait.Done); otherwise the deferred select offers the error.
LoopReadDisposed(i) ==
    /\ loop[i] = "goterr"
    /\ IF disposed
       THEN loop' = [loop EXCEPT ![i] = "done"] /\ wait' = wait - 1
       ELSE loop' = [loop EXCEPT ![i] = "senderr"] /\ UNCHANGED wait
    /\ UNCHANGED <<listeners, disposed, disposeLock, closing, chansClosed,
                   listenRes, acc, cls, lsnHist>>
    /\ LsnFrame

\* A send on v.conns that every AcceptTCP call in its select receives.
LoopSendConnBroadcast(i, a) ==
    /\ loop[i] = "gotconn"
    /\ acc[a].pc = "select"
    /\ ~chansClosed
    /\ loop' = [loop EXCEPT ![i] = "accept"]
    /\ acc' = [b \in Accepters |->
                 IF acc[b].pc = "select"
                 THEN [acc[b] EXCEPT !.pc = "idle", !.res = "conn"]
                 ELSE acc[b]]
    /\ UNCHANGED <<listeners, disposed, disposeLock, closing, chansClosed, wait,
                   listenRes, cls, lsnHist>>
    /\ LsnFrame

\* select case v.conns <- conn, with AcceptTCP of caller a receiving it:
\* a returns the connection and the loop goes on to accept again.  (No
\* loop is in a select once the channels are closed: Close closes them
\* after wait.Wait(), and a loop that starts later finds its socket closed
\* and v.disposed set.)
LoopSendConn(i, a) ==
    /\ loop[i] = "gotconn"
    /\ acc[a].pc = "select"
    /\ ~chansClosed
    /\ loop' = [loop EXCEPT ![i] = "accept"]
    /\ acc' = [acc EXCEPT ![a].pc = "idle", ![a].res = "conn"]
    /\ UNCHANGED <<listeners, disposed, disposeLock, closing, chansClosed, wait,
                   listenRes, cls, lsnHist>>
    /\ LsnFrame

\* deferred select case v.errors <- err, with AcceptTCP of caller a receiving
\* it: a returns the error, doAcceptFrom returns it and acceptFrom returns.
LoopSendErr(i, a) ==
    /\ loop[i] = "senderr"
    /\ acc[a].pc = "select"
    /\ ~chansClosed
    /\ loop' = [loop EXCEPT ![i] = "done"]
    /\ wait' = wait - 1
    /\ acc' = [acc EXCEPT ![a].pc = "idle", ![a].res = "err"]
    /\ UNCHANGED <<listeners, disposed, disposeLock, closing, chansClosed,
                   listenRes, cls, lsnHist>>
    /\ LsnFrame

\* select case c := <-v.closing, in either select of doAcceptFrom.
LoopTakeClosing(i) ==
    /\ loop[i] \in {"gotconn", "senderr"}
    /\ closing = 1
    /\ closing' = 0
    /\ loop' = [loop EXCEPT ![i] = IF loop[i] = "gotconn" THEN "repostConn" ELSE "repostErr"]
    /\ UNCHANGED <<listeners, disposed, disposeLock, chansClosed, wait, listenRes,
                   acc, cls, lsnHist>>
    /\ LsnFrame

\* v.closing <- c: blocks while the buffer is full.  With a connection in
\* hand the loop closes it and accepts again; with an error acceptFrom returns.
LoopRepost(i) ==
    /\ loop[i] \in {"repostConn", "repostErr"}
    /\ closing = 0
    /\ closing' = 1
    /\ IF loop[i] = "repostConn"
       THEN loop' = [loop EXCEPT ![i] = "accept"] /\ UNCHANGED wait
       ELSE loop' = [loop EXCEPT ![i] = "done"] /\ wait' = wait - 1
    /\ UNCHANGED <<listeners, disposed, disposeLock, chansClosed, listenRes,
                   acc, cls, lsnHist>>
    /\ LsnFrame

\* A call of AcceptTCP begins.
AcceptCall(a) ==
    /\ acc[a].pc = "idle"
    /\ acc' = [acc EXCEPT ![a] = [pc |-> "check", res |-> "none", late |-> lsnHist.closeDone]]
    /\ UNCHANGED <<listeners, disposed, disposeLock, closing, chansClosed, wait,
                   listenRes, loop, cls, lsnHist>>
    /\ LsnFrame

\* AcceptTCP: the check of v.disposed under disposeLock.
AcceptCheck(a) ==
    /\ acc[a].pc = "check"
    /\ disposeLock = "free"
    /\ acc' = IF disposed
              THEN [acc EXCEPT ![a].pc = "idle", ![a].res = "ListenerDisposed"]
              ELSE [acc EXCEPT ![a].pc = "select"]
    /\ UNCHANGED <<listeners, disposed, disposeLock, closing, chansClosed, wait,
                   listenRes, loop, cls, lsnHist>>
    /\ LsnFrame

\* AcceptTCP: a receive from the closed v.conns or v.errors gives !ok.
AcceptRecvClosed(a) ==
    /\ acc[a].pc = "select"
    /\ chansClosed
    /\ acc' = [acc EXCEPT ![a].pc = "idle", ![a].res = "ListenerDisposed"]
    /\ UNCHANGED <<listeners, disposed, disposeLock, closing, chansClosed, wait,
                   listenRes, loop, cls, lsnHist>>
    /\ LsnFrame

\* AcceptTCP: select case c := <-v.closing.
AcceptTakeClosing(a) ==
    /\ acc[a].pc = "select"
    /\ closing = 1
    /\ closing' = 0
    /\ acc' = [acc EXCEPT ![a].pc = "repost"]
    /\ UNCHANGED <<listeners, disposed, disposeLock, chansClosed, wait, listenRes,
                   loop, cls, lsnHist>>
    /\ LsnFrame

\* AcceptTCP: v.closing <- c, then return ListenerDisposed.
AcceptRepost(a) ==
    /\ acc[a].pc = "repost"
    /\ closing = 0
    /\ closing' = 1
    /\ acc' = [acc EXCEPT ![a].pc = "idle", ![a].res = "ListenerDisposed"]
    /\ UNCHANGED <<listeners, disposed, disposeLock, chansClosed, wait, listenRes,
                   loop, cls, lsnHist>>
    /\ LsnFrame

\* A call of Close begins.
CloseCall(c) ==
    /\ cls[c].pc = "idle"
    /\ cls' = [cls EXCEPT ![c] = [pc |-> "signal", res |-> "none", late |-> lsnHist.closeDone]]
    /\ UNCHANGED <<listeners, disposed, disposeLock, closing, chansClosed, wait,
                   listenRes, loop, acc, lsnHist>>
    /\ LsnFrame

\* Close: select { case v.closing <- true: default: }.
CloseSignal(c) ==
    /\ cls[c].pc = "signal"
    /\ closing' = 1
    /\ cls' = [cls EXCEPT ![c].pc = "lock"]
    /\ UNCHANGED <<listeners, disposed, disposeLock, chansClosed, wait, listenRes,
                   loop, acc, lsnHist>>
    /\ LsnFrame

\* Close: v.disposeLock.Lock().
CloseLock(c) ==
    /\ cls[c].pc = "lock"
    /\ disposeLock = "free"
    /\ disposeLock' = c
    /\ cls' = [cls EXCEPT ![c].pc = "check"]
    /\ UNCHANGED <<listeners, disposed, closing, chansClosed, wait, listenRes,
                   loop, acc, lsnHist>>
    /\ LsnFrame

\* Close of an inverted guard: it returns when the listener is NOT disposed.
CloseCheckInverted(c) ==
    /\ cls[c].pc = "check"
    /\ IF ~disposed
       THEN /\ cls' = [cls EXCEPT ![c].pc = "idle", ![c].res = "ListenerDisposed"]
            /\ disposeLock' = "free"
            /\ lsnHist' = [lsnHist EXCEPT !.closeDone = TRUE]
            /\ UNCHANGED disposed
       ELSE /\ cls' = [cls EXCEPT ![c].pc = "interrupt"]
            /\ disposed' = TRUE
            /\ UNCHANGED <<disposeLock, lsnHist>>
    /\ UNCHANGED <<listeners, closing, chansClosed, wait, listenRes, loop, acc>>
    /\ LsnFrame

\* Close without the guard: every call disposes.
CloseCheckMissing(c) ==
    /\ cls[c].pc = "check"
    /\ cls' = [cls EXCEPT ![c].pc = "interrupt"]
    /\ disposed' = TRUE
    /\ UNCHANGED <<listeners, disposeLock, closing, chansClosed, wait, listenRes,
                   loop, acc, lsnHist>>
    /\ LsnFrame

\* Close: if v.disposed, return ListenerDisposed (the deferred Unlock runs);
\* otherwise v.disposed = true.
CloseCheck(c) ==
    /\ cls[c].pc = "check"
    /\ IF disposed
       THEN /\ cls' = [cls EXCEPT ![c].pc = "idle", ![c].res = "ListenerDisposed"]
            /\ disposeLock' = "free"
            /\ lsnHist' = [lsnHist EXCEPT !.closeDone = TRUE]
            /\ UNCHANGED disposed
       ELSE /\ cls' = [cls EXCEPT ![c].pc = "interrupt"]
            /\ disposed' = TRUE
            /\ UNCHANGED <<disposeLock, lsnHist>>
    /\ UNCHANGED <<listeners, closing, chansClosed, wait, listenRes, loop, acc>>
    /\ LsnFrame

\* Close: the loop that closes every socket in v.listeners.
CloseListeners(c) ==
    /\ cls[c].pc = "interrupt"
    /\ listeners' = [i \in Addresses |-> IF listeners[i] = "unbound" THEN "unbound" ELSE "closed"]
    /\ lsnHist' = [lsnHist EXCEPT !.doubleClose =
                      @ \/ \E i \in Addresses : listeners[i] = "closed"]
    /\ cls' = [cls EXCEPT ![c].pc = "wait"]
    /\ UNCHANGED <<disposed, disposeLock, closing, chansClosed, wait, listenRes, loop, acc>>
    /\ LsnFrame

\* Close that goes on without waiting for the accept goroutines.
CloseWaitNoWait(c) ==
    /\ cls[c].pc = "wait"
    /\ cls' = [cls EXCEPT ![c].pc = "chans"]
    /\ UNCHANGED <<listeners, disposed, disposeLock, closing, chansClosed, wait,
                   listenRes, loop, acc, lsnHist>>
    /\ LsnFrame

\* Close: v.wait.Wait() returns when the counter is zero.
CloseWait(c) ==
    /\ cls[c].pc = "wait"
    /\ wait = 0
    /\ cls' = [cls EXCEPT ![c].pc = "chans"]
    /\ UNCHANGED <<listeners, disposed, disposeLock, closing, chansClosed, wait,
                   listenRes, loop, acc, lsnHist>>
    /\ LsnFrame

\* Close: close(v.conns), close(v.errors), return nil (the deferred Unlock).
CloseChans(c) ==
    /\ cls[c].pc = "chans"
    /\ chansClosed' = TRUE
    /\ disposeLock' = "free"
    /\ cls' = [cls EXCEPT ![c].pc = "idle", ![c].res = "nil"]
    /\ lsnHist' = [closeDone |-> TRUE,
                   nilCloses |-> IF lsnHist.nilCloses < 2 THEN lsnHist.nilCloses + 1 ELSE 2,
                   doubleClose |-> lsnHist.doubleClose \/ chansClosed]
    /\ UNCHANGED <<listeners, disposed, closing, wait, listenRes, loop, acc>>
    /\ LsnFrame

\* The steps an acceptFrom goroutine takes by itself once it can.
LoopProgress(i) ==
    \/ LoopAdd(i)
    \/ LoopAcceptClosed(i)
    \/ LoopReadDisposed(i)
    \/ \E a \in Accepters : LoopSendConn(i, a)
    \/ \E a \in Accepters : LoopSendErr(i, a)
    \/ LoopTakeClosing(i)
    \/ LoopRepost(i)

\* The steps a call of AcceptTCP takes by itself once it can.
AcceptProgress(a) ==
    \/ AcceptCheck(a)
    \/ AcceptRecvClosed(a)
    \/ AcceptTakeClosing(a)
    \/ AcceptRepost(a)
    \/ \E i \in Addresses : LoopSendConn(i, a)
    \/ \E i \in Addresses : LoopSendErr(i, a)

\* The steps a call of Close takes by itself once it can.
CloseProgress(c) ==
    \/ CloseSignal(c)
    \/ CloseLock(c)
    \/ CloseCheck(c)
    \/ CloseListeners(c)
    \/ CloseWait(c)
    \/ CloseChans(c)

LsnNext ==
    \/ \E failAt \in 1..(NumAddrs + 1) : ListenTCP(failAt)
    \/ \E i \in Addresses : LoopAdd(i)
    \/ \E i \in Addresses : LoopAcceptConn(i)
    \/ \E i \in Addresses : LoopAcceptErr(i)
    \/ \E i \in Addresses : LoopAcceptClosed(i)
    \/ \E i \in Addresses : LoopReadDisposed(i)
    \/ \E i \in Addresses, a \in Accepters : LoopSendConn(i, a)
    \/ \E i \in Addresses, a \in Accepters : LoopSendErr(i, a)
    \/ \E i \in Addresses : LoopTakeClosing(i)
    \/ \E i \in Addresses : LoopRepost(i)
    \/ \E a \in Accepters : AcceptCall(a)
    \/ \E a \in Accepters : AcceptCheck(a)
    \/ \E a \in Accepters : AcceptRecvClosed(a)
    \/ \E a \in Accepters : AcceptTakeClosing(a)
    \/ \E a \in Accepters : AcceptRepost(a)
    \/ \E c \in Closers : CloseCall(c)
    \/ \E c \in Closers : CloseSignal(c)
    \/ \E c \in Closers : CloseLock(c)
    \/ \E c \in Closers : CloseCheck(c)
    \/ \E c \in Closers : CloseListeners(c)
    \/ \E c \in Closers : CloseWait(c)
    \/ \E c \in Closers : CloseChans(c)

LsnFairness ==
    /\ \A i \in Addresses : WF_vars(LoopProgress(i))
    /\ \A a \in Accepters : WF_vars(AcceptProgress(a)) /\ SF_vars(AcceptCheck(a))
    /\ \A c \in Closers : WF_vars(CloseProgress(c)) /\ SF_vars(CloseLock(c))

(***************************************************************************)
(* kernel: NewTcpListeners, the validation of the listen addresses.        *)
(***************************************************************************)
\* Number of addresses in the list given to NewTcpListeners.
MaxListens == 2

\* Address strings, each as the sequence of its pieces: the pieces are
\* words, and "://" wherever the string contains it.
ListenStrings ==
    {<<"tcp", "://", ":1935">>, <<"tcp4", "://", ":1935">>, <<"tcp6", "://", ":1935">>,
     <<"tcp", "://">>, <<"udp", "://", ":1935">>, <<"tcp", ":1935">>, <<":1935">>, <<>>,
     <<"://", "tcp", "://", ":1935">>, <<"tcp", "://", ":1935", "://">>,
     <<"tcp6", "://", "://">>, <<"http", "://", "tcp", "://", ":1935">>}

\* The lists of at most n address strings.
ListenLists(n) == UNION {[1..k -> ListenStrings] : k \in 0..n}

\* strings.HasPrefix(s, prefix).
HasPrefix(s, prefix) ==
    Len(s) >= Len(prefix) /\ SubSeq(s, 1, Len(prefix)) = prefix

\* strings.Count(s, sep) for a separator that is one piece.
Count(s, sep) == Cardinality({k \in 1..Len(s) : s[k] = sep})

\* The checks of one address with the check of the number of "://" left out.
AddrErrorPrefixOnly(v) ==
    IF /\ ~HasPrefix(v, <<"tcp", "://">>)
       /\ ~HasPrefix(v, <<"tcp4", "://">>)
       /\ ~HasPrefix(v, <<"tcp6", "://">>)
    THEN "prefix"
    ELSE "nil"

\* NewTcpListeners: the body of the loop over addrs, for one address.
AddrError(v) ==
    IF /\ ~HasPrefix(v, <<"tcp", "://">>)
       /\ ~HasPrefix(v, <<"tcp4", "://">>)
       /\ ~HasPrefix(v, <<"tcp6", "://">>)
    THEN "prefix"
    ELSE IF Count(v, "://") # 1
    THEN "identify"
    ELSE "nil"

\* The error NewTcpListeners returns: that of the first address that fails.
NewTcpListenersError(addrs) ==
    IF Len(addrs) = 0
    THEN "no listens"
    ELSE LET failed == {k \in 1..Len(addrs) : AddrError(addrs[k]) # "nil"}
         IN  IF failed = {}
             THEN "nil"
             ELSE AddrError(addrs[CHOOSE k \in failed : \A j \in failed : k <= j])

\* The construction leaves the other components alone.
NewFrame == UNCHANGED <<hlsVars, lsnVars, rtmpVars, apiVars, mainVars, poolVars, srvVars,
    streamVars>>

NewInit ==
    /\ newArgs = <<>>
    /\ newRes = "none"

\* NewTcpListeners(addrs): it opens no socket and starts nothing; the
\* listener it returns is the one LsnInit describes.
NewTcpListeners(addrs) ==
    /\ newArgs' = addrs
    /\ newRes' = NewTcpListenersError(addrs)
    /\ NewFrame

NewNext == \E addrs \in ListenLists(MaxListens) : NewTcpListeners(addrs)

(***************************************************************************)
(* rtmplb: the RTMP stream proxy, for one accepted connection.             *)
(***************************************************************************)
\* when backend connect error, retry max count.
RetryMax == 3
\* The integers the control API is given as ?rtmp=<port>.
PortInputs == {0, 1, 2}
\* The two copy goroutines: backend to client, and client to backend.
Tasks == {"toClient", "toBackend"}

\* The proxy's steps leave the other components alone.
RtmpFrame == UNCHANGED <<hlsVars, lsnVars, apiVars, newVars, mainVars, poolVars, srvVars,
    streamVars>>

\* A goroutine of rtmplb takes a step only while the process is alive.
RtmpRunning == ~crashed /\ UNCHANGED crashed

\* NewProxy, and a connection not yet accepted.
RtmpInit ==
    /\ ports = <<>>
    /\ activePort = 0
    /\ h = [pc |-> "idle", i |-> 0, backend |-> 0, err |-> "nil",
            attempts |-> 0, dials |-> 0, sleeps |-> 0, first |-> -1, target |-> -1]
    /\ task = [t \in Tasks |-> "none"]
    /\ rclosing = 0
    /\ rwait = 0
    /\ sock = [client |-> "none", backend |-> "none"]
    /\ rtmpHist = [portSet |-> FALSE, forwarded |-> FALSE, panicked |-> FALSE]
    /\ crashed = FALSE

\* hasProxyed.
hasProxyed(port) == \E k \in 1..Len(ports) : ports[k] = port

\* serveApi with ?rtmp=<port>, port an integer, handled from its first to
\* its last statement with no other request in between.
serveApi(port) ==
    /\ ports' = IF ~hasProxyed(port) THEN Append(ports, port) ELSE ports
    /\ activePort' = port
    /\ rtmpHist' = [rtmpHist EXCEPT !.portSet = @ \/ (h.pc # "idle" /\ port > 0)]
    /\ UNCHANGED <<h, task, rclosing, rwait, sock>>
    /\ RtmpRunning
    /\ RtmpFrame

\* The accepter hands a connection to go proxy.serveRtmp(c).
RtmpAccept ==
    /\ h.pc = "idle"
    /\ h' = [h EXCEPT !.pc = "loop"]
    /\ sock' = [sock EXCEPT !.client = "open"]
    /\ rtmpHist' = [rtmpHist EXCEPT !.portSet = activePort > 0]
    /\ UNCHANGED <<ports, activePort, task, rclosing, rwait>>
    /\ RtmpRunning
    /\ RtmpFrame

\* A retry loop that goes on although a backend is connected.
RetryLoopIgnoresBackend(i, backend) == i < RetryMax

\* A retry loop that goes on with no bound on the attempts (they are
\* counted up to RetryMax + 1).
RetryLoopUnbounded(i, backend) == i < RetryMax + 1 /\ backend = 0

\* The condition of the retry loop: i < RetryMax && backend == nil.
RetryLoopContinues(i, backend) == i < RetryMax /\ backend = 0

\* The loop head of serveRtmp.  When the loop ends without a backend the
\* handler returns err and the deferred client.Close() runs.
RtmpLoop ==
    /\ h.pc = "loop"
    /\ IF RetryLoopContinues(h.i, h.backend)
       THEN /\ h' = [h EXCEPT !.pc = "check", !.attempts = @ + 1]
            /\ UNCHANGED sock
       ELSE IF h.backend = 0
            THEN /\ h' = [h EXCEPT !.pc = "returned"]
                 /\ sock' = [sock EXCEPT !.client = "closed"]
            ELSE /\ h' = [h EXCEPT !.pc = "launch"]
                 /\ UNCHANGED sock
    /\ UNCHANGED <<ports, activePort, task, rclosing, rwait, rtmpHist>>
    /\ RtmpRunning
    /\ RtmpFrame

\* A test of the active port that lets port 0 through.
NoBackendNegativeOnly(port) == port < 0

\* connectBackend: v.activePort <= 0.
NoBackend(port) == port <= 0

\* connectBackend: the test of v.activePort; without a backend it returns
\* an error, kept in err when err is nil.
RtmpCheckPort ==
    /\ h.pc = "check"
    /\ LET seen == IF h.first = -1 THEN activePort ELSE h.first
       IN  IF NoBackend(activePort)
           THEN h' = [h EXCEPT !.pc = "sleep", !.err = "error", !.first = seen]
           ELSE h' = [h EXCEPT !.pc = "dial", !.first = seen]
    /\ UNCHANGED <<ports, activePort, task, rclosing, rwait, sock, rtmpHist>>
    /\ RtmpRunning
    /\ RtmpFrame

\* connectBackend: net.DialTimeout to 127.0.0.1:<v.activePort>, which
\* connects or fails; it cannot connect to a port that is not positive.
\* The address is built from v.activePort as it is now, read again after
\* the test above.
RtmpDial(ok) ==
    /\ h.pc = "dial"
    /\ ok => activePort > 0
    /\ IF ok
       THEN /\ h' = [h EXCEPT !.pc = "loop", !.i = @ + 1, !.backend = activePort,
                              !.dials = @ + 1, !.target = activePort]
            /\ sock' = [sock EXCEPT !.backend = "open"]
       ELSE /\ h' = [h EXCEPT !.pc = "sleep", !.err = "error", !.dials = @ + 1,
                              !.target = activePort]
            /\ UNCHANGED sock
    /\ UNCHANGED <<ports, activePort, task, rclosing, rwait, rtmpHist>>
    /\ RtmpRunning
    /\ RtmpFrame

\* connectBackend: the deferred time.Sleep(RetryBackend) when backend is nil.
RtmpSleep ==
    /\ h.pc = "sleep"
    /\ h' = [h EXCEPT !.pc = "loop", !.i = @ + 1, !.sleeps = @ + 1]
    /\ UNCHANGED <<ports, activePort, task, rclosing, rwait, sock, rtmpHist>>
    /\ RtmpRunning
    /\ RtmpFrame

\* serveRtmp: the two go statements, then disposed = true.
RtmpLaunch ==
    /\ h.pc = "launch"
    /\ h' = [h EXCEPT !.pc = "recv"]
    /\ task' = [t \in Tasks |-> "launched"]
    /\ UNCHANGED <<ports, activePort, rclosing, rwait, sock, rtmpHist>>
    /\ RtmpRunning
    /\ RtmpFrame

\* serveRtmp: <-closing.
RtmpRecvClosing ==
    /\ h.pc = "recv"
    /\ rclosing = 1
    /\ rclosing' = 0
    /\ h' = [h EXCEPT !.pc = "repost"]
    /\ UNCHANGED <<ports, activePort, task, rwait, sock, rtmpHist>>
    /\ RtmpRunning
    /\ RtmpFrame

\* serveRtmp: closing <- true, which blocks while the buffer is full.
RtmpRepost ==
    /\ h.pc = "repost"
    /\ rclosing = 0
    /\ rclosing' = 1
    /\ h' = [h EXCEPT !.pc = "wait"]
    /\ UNCHANGED <<ports, activePort, task, rwait, sock, rtmpHist>>
    /\ RtmpRunning
    /\ RtmpFrame

\* serveRtmp: wait.Wait(), then return: the deferred backend.Close() and
\* client.Close() run.
RtmpWait ==
    /\ h.pc = "wait"
    /\ rwait = 0
    /\ h' = [h EXCEPT !.pc = "returned"]
    /\ sock' = [client |-> "closed", backend |-> "closed"]
    /\ UNCHANGED <<ports, activePort, task, rclosing, rwait, rtmpHist>>
    /\ RtmpRunning
    /\ RtmpFrame

\* A copy goroutine starts: wait.Add(1), then io.Copy.
TaskAdd(t) ==
    /\ task[t] = "launched"
    /\ rwait' = rwait + 1
    /\ task' = [task EXCEPT ![t] = "copying"]
    /\ UNCHANGED <<ports, activePort, h, rclosing, sock, rtmpHist>>
    /\ RtmpRunning
    /\ RtmpFrame

\* io.Copy moves bytes from one open socket to the other.
TaskCopyData(t) ==
    /\ task[t] = "copying"
    /\ sock.client = "open" /\ sock.backend = "open"
    /\ ~rtmpHist.forwarded
    /\ rtmpHist' = [rtmpHist EXCEPT !.forwarded = TRUE]
    /\ UNCHANGED <<ports, activePort, h, task, rclosing, rwait, sock>>
    /\ RtmpRunning
    /\ RtmpFrame

\* io.Copy returns because its peer sent EOF or the transfer failed.
TaskCopyEnds(t) ==
    /\ task[t] = "copying"
    /\ sock.client = "open" /\ sock.backend = "open"
    /\ task' = [task EXCEPT ![t] = "finish"]
    /\ UNCHANGED <<ports, activePort, h, rclosing, rwait, sock, rtmpHist>>
    /\ RtmpRunning
    /\ RtmpFrame

\* io.Copy returns an error because the proxy closed a socket it uses.
TaskCopyBroken(t) ==
    /\ task[t] = "copying"
    /\ (sock.client = "closed" \/ sock.backend = "closed")
    /\ task' = [task EXCEPT ![t] = "finish"]
    /\ UNCHANGED <<ports, activePort, h, rclosing, rwait, sock, rtmpHist>>
    /\ RtmpRunning
    /\ RtmpFrame

\* The deferred select { case closing <- true: default: }.
TaskSignal(t) ==
    /\ task[t] = "finish"
    /\ rclosing' = 1
    /\ task' = [task EXCEPT ![t] = "signaled"]
    /\ UNCHANGED <<ports, activePort, h, rwait, sock, rtmpHist>>
    /\ RtmpRunning
    /\ RtmpFrame

\* The deferred wait.Done().
TaskDone(t) ==
    /\ task[t] = "signaled"
    /\ rwait' = rwait - 1
    /\ task' = [task EXCEPT ![t] = "done"]
    /\ UNCHANGED <<ports, activePort, h, rclosing, sock, rtmpHist>>
    /\ RtmpRunning
    /\ RtmpFrame

\* serveRtmp panics (in a library it calls): the deferred functions run in
\* reverse order.  backend.Close() runs when it was deferred, that is after
\* the retry loop; client.Close() runs; the deferred recover() stops the
\* panic and sets err when it is nil.  The copy goroutines, if any, go on.
RtmpPanic ==
    /\ h.pc \in {"loop", "check", "dial", "sleep", "launch", "recv", "repost", "wait"}
    /\ h' = [h EXCEPT !.pc = "returned", !.err = "error"]
    /\ sock' = [client |-> "closed",
                backend |-> IF h.pc \in {"launch", "recv", "repost", "wait"}
                            THEN "closed" ELSE sock.backend]
    /\ rtmpHist' = [rtmpHist EXCEPT !.panicked = TRUE]
    /\ UNCHANGED <<ports, activePort, task, rclosing, rwait>>
    /\ RtmpRunning
    /\ RtmpFrame

\* A copy goroutine panics inside io.Copy: its deferred functions run (the
\* non-blocking send on closing, wait.Done()), none of them calls recover(),
\* and a panic that leaves a goroutine's function terminates the program;
\* the sockets of the process are closed with it.
TaskPanic(t) ==
    /\ task[t] = "copying"
    /\ ~crashed
    /\ task' = [task EXCEPT ![t] = "panicked"]
    /\ rclosing' = 1
    /\ rwait' = rwait - 1
    /\ crashed' = TRUE
    /\ sock' = [client |-> "closed", backend |-> "closed"]
    /\ UNCHANGED <<ports, activePort, h, rtmpHist>>
    /\ RtmpFrame

\* The steps serveRtmp takes by itself once it can.
RtmpProgress ==
    \/ RtmpLoop
    \/ RtmpCheckPort
    \/ \E ok \in BOOLEAN : RtmpDial(ok)
    \/ RtmpSleep
    \/ RtmpLaunch
    \/ RtmpRecvClosing
    \/ RtmpRepost
    \/ RtmpWait

\* The steps a copy goroutine takes by itself once it can.
TaskProgress(t) ==
    \/ TaskAdd(t)
    \/ TaskCopyBroken(t)
    \/ TaskSignal(t)
    \/ TaskDone(t)

RtmpNext ==
    \/ \E port \in PortInputs : serveApi(port)
    \/ RtmpAccept
    \/ RtmpLoop
    \/ RtmpCheckPort
    \/ \E ok \in BOOLEAN : RtmpDial(ok)
    \/ RtmpSleep
    \/ RtmpLaunch
    \/ RtmpRecvClosing
    \/ RtmpRepost
    \/ RtmpWait
    \/ RtmpPanic
    \/ \E t \in Tasks : TaskPanic(t)
    \/ \E t \in Tasks : TaskAdd(t)
    \/ \E t \in Tasks : TaskCopyData(t)
    \/ \E t \in Tasks : TaskCopyEnds(t)
    \/ \E t \in Tasks : TaskCopyBroken(t)
    \/ \E t \in Tasks : TaskSignal(t)
    \/ \E t \in Tasks : TaskDone(t)

RtmpFairness ==
    /\ WF_vars(RtmpProgress)
    /\ \A t \in Tasks : WF_vars(TaskProgress(t))

(***************************************************************************)
(* rtmplb: main, from the start of its goroutines to its return.           *)
(***************************************************************************)
\* Number of termination signals the process receives.
MaxSignals == 2

\* The two goroutines main waits for.
MainTasks == {"accepter", "api"}

\* The steps of main and its goroutines leave the other components alone.
MainFrame == UNCHANGED <<hlsVars, lsnVars, rtmpVars, apiVars, newVars, poolVars, srvVars,
    streamVars>>

\* main at its final select: both listeners open, the goroutines created,
\* closing and asq empty.
MainInit ==
    /\ mainPc = "select"
    /\ mainTask = [t \in MainTasks |-> "launched"]
    /\ mainSignal = [pc |-> "idle", count |-> 0]
    /\ mainClosing = 0
    /\ asq = 0
    /\ mainWait = 0
    /\ mainListeners = [l \in MainTasks |-> "open"]

\* A goroutine of the process takes a step only until main returns.
MainRunning == mainPc # "returned"

\* The accepter or the API goroutine starts: wait.Add(1).
MainTaskAdd(t) ==
    /\ MainRunning
    /\ mainTask[t] = "launched"
    /\ mainTask' = [mainTask EXCEPT ![t] = "running"]
    /\ mainWait' = mainWait + 1
    /\ UNCHANGED <<mainPc, mainSignal, mainClosing, asq, mainListeners>>
    /\ MainFrame

\* listener.AcceptTCP() or server.Serve(apiListener) returns an error: an
\* accept error, or the listener was closed.  The deferred calls follow.
MainTaskExit(t) ==
    /\ MainRunning
    /\ mainTask[t] = "running"
    /\ mainTask' = [mainTask EXCEPT ![t] = IF t = "accepter" THEN "close" ELSE "notify"]
    /\ UNCHANGED <<mainPc, mainSignal, mainClosing, asq, mainWait, mainListeners>>
    /\ MainFrame

\* The accepter's deferred listener.Close().
MainTaskClose(t) ==
    /\ MainRunning
    /\ mainTask[t] = "close"
    /\ mainTask' = [mainTask EXCEPT ![t] = "notify"]
    /\ mainListeners' = [mainListeners EXCEPT ![t] = "closed"]
    /\ UNCHANGED <<mainPc, mainSignal, mainClosing, asq, mainWait>>
    /\ MainFrame

\* The deferred select { case closing <- true: default: }.
MainTaskNotify(t) ==
    /\ MainRunning
    /\ mainTask[t] = "notify"
    /\ mainTask' = [mainTask EXCEPT ![t] = "exit"]
    /\ mainClosing' = 1
    /\ UNCHANGED <<mainPc, mainSignal, asq, mainWait, mainListeners>>
    /\ MainFrame

\* The deferred wait.Done().
MainTaskDone(t) ==
    /\ MainRunning
    /\ mainTask[t] = "exit"
    /\ mainTask' = [mainTask EXCEPT ![t] = "done"]
    /\ mainWait' = mainWait - 1
    /\ UNCHANGED <<mainPc, mainSignal, mainClosing, asq, mainListeners>>
    /\ MainFrame

\* The signal goroutine receives a signal from ss.
MainSignalReceive ==
    /\ MainRunning
    /\ mainSignal.pc = "idle"
    /\ mainSignal.count < MaxSignals
    /\ mainSignal' = [pc |-> "send", count |-> mainSignal.count + 1]
    /\ UNCHANGED <<mainPc, mainTask, mainClosing, asq, mainWait, mainListeners>>
    /\ MainFrame

\* The signal goroutine: closing <- true, which blocks while the buffer is
\* full.
MainSignalSend ==
    /\ MainRunning
    /\ mainSignal.pc = "send"
    /\ mainClosing = 0
    /\ mainClosing' = 1
    /\ mainSignal' = [mainSignal EXCEPT !.pc = "idle"]
    /\ UNCHANGED <<mainPc, mainTask, asq, mainWait, mainListeners>>
    /\ MainFrame

\* The watcher started by oa.WatchNoExit posts the quit notification.
MainSupervisorQuit ==
    /\ MainRunning
    /\ asq = 0
    /\ asq' = 1
    /\ UNCHANGED <<mainPc, mainTask, mainSignal, mainClosing, mainWait, mainListeners>>
    /\ MainFrame

\* main: select case <-closing.
MainRecvClosing ==
    /\ mainPc = "select"
    /\ mainClosing = 1
    /\ mainClosing' = 0
    /\ mainPc' = "repost"
    /\ UNCHANGED <<mainTask, mainSignal, asq, mainWait, mainListeners>>
    /\ MainFrame

\* main: closing <- true, which blocks while the buffer is full.
MainRepost ==
    /\ mainPc = "repost"
    /\ mainClosing = 0
    /\ mainClosing' = 1
    /\ mainPc' = "closeListener"
    /\ UNCHANGED <<mainTask, mainSignal, asq, mainWait, mainListeners>>
    /\ MainFrame

\* main: select case <-asq.
MainRecvAsq ==
    /\ mainPc = "select"
    /\ asq = 1
    /\ asq' = 0
    /\ mainPc' = "closeListener"
    /\ UNCHANGED <<mainTask, mainSignal, mainClosing, mainWait, mainListeners>>
    /\ MainFrame

\* main: listener.Close().
MainCloseListener ==
    /\ mainPc = "closeListener"
    /\ mainListeners' = [mainListeners EXCEPT !["accepter"] = "closed"]
    /\ mainPc' = "closeApi"
    /\ UNCHANGED <<mainTask, mainSignal, mainClosing, asq, mainWait>>
    /\ MainFrame

\* main: apiListener.Close().
MainCloseApi ==
    /\ mainPc = "closeApi"
    /\ mainListeners' = [mainListeners EXCEPT !["api"] = "closed"]
    /\ mainPc' = "wait"
    /\ UNCHANGED <<mainTask, mainSignal, mainClosing, asq, mainWait>>
    /\ MainFrame

\* main: wait.Wait() returns when the counter is zero, and main returns.
MainWaitReturn ==
    /\ mainPc = "wait"
    /\ mainWait = 0
    /\ mainPc' = "returned"
    /\ UNCHANGED <<mainTask, mainSignal, mainClosing, asq, mainWait, mainListeners>>
    /\ MainFrame

MainNext ==
    \/ \E t \in MainTasks : MainTaskAdd(t)
    \/ \E t \in MainTasks : MainTaskExit(t)
    \/ \E t \in MainTasks : MainTaskClose(t)
    \/ \E t \in MainTasks : MainTaskNotify(t)
    \/ \E t \in MainTasks : MainTaskDone(t)
    \/ MainSignalReceive
    \/ MainSignalSend
    \/ MainSupervisorQuit
    \/ MainRecvClosing
    \/ MainRepost
    \/ MainRecvAsq
    \/ MainCloseListener
    \/ MainCloseApi
    \/ MainWaitReturn

(***************************************************************************)
(* The port allocator: NewPortPool(PoolLow, PoolHigh), Alloc and Free, as  *)
(* the design document describes them.                                     *)
(***************************************************************************)
\* The declared range of the pool.
PoolLow == 1
PoolHigh == 4

\* The integers given to Free: the declared range, the port below it and
\* two ports above it.
PortSpace == (PoolLow - 1)..(PoolHigh + 2)

\* The block sizes asked of Alloc: 0, and up to one more than the range.
AllocSizes == 0..(PoolHigh - PoolLow + 2)

\* The allocator's steps leave the other components alone.
PoolFrame == UNCHANGED <<hlsVars, lsnVars, rtmpVars, apiVars, newVars, mainVars, srvVars,
    streamVars>>

\* NewPortPool(PoolLow, PoolHigh): every port of the range is free.
PoolInit ==
    /\ poolFree = PoolLow..PoolHigh
    /\ poolAllocated = {}
    /\ poolLast = [op |-> "NewPortPool", arg |-> 0, res |-> <<>>, err |-> "nil", freed |-> FALSE]

\* The n integers from start on are all free.
FreeRun(free, start, n) == \A k \in 0..(n - 1) : (start + k) \in free

\* The ports start, ..., start + n - 1, ascending.
PortRun(start, n) == [k \in 1..n |-> start + k - 1]

\* A scan that keeps the last run of n consecutive free ports.
LastRun(free, n) ==
    LET starts == {p \in free : FreeRun(free, p, n)}
    IN  IF starts = {} THEN <<>>
        ELSE PortRun(CHOOSE p \in starts : \A q \in starts : p >= q, n)

\* The scan of Alloc: in ascending order over the free ports, the first
\* run of n consecutive free integers; <<>> when there is none.
FirstRun(free, n) ==
    LET starts == {p \in free : FreeRun(free, p, n)}
    IN  IF starts = {} THEN <<>>
        ELSE PortRun(CHOOSE p \in starts : \A q \in starts : p <= q, n)

\* The ports of a sequence.
PortsOf(run) == {run[k] : k \in 1..Len(run)}

\* An Alloc that hands out the free ports it met when it fails.
AllocPartial(n) ==
    /\ LET run == FirstRun(poolFree, n)
           met == IF poolFree = {} THEN {}
                  ELSE {CHOOSE p \in poolFree : \A q \in poolFree : p <= q}
       IN  IF n = 0
           THEN /\ poolLast' = [poolLast EXCEPT !.op = "Alloc", !.arg = n, !.res = <<>>, !.err = "InvalidArgument"]
                /\ UNCHANGED <<poolFree, poolAllocated>>
           ELSE IF run = <<>>
           THEN /\ poolLast' = [poolLast EXCEPT !.op = "Alloc", !.arg = n, !.res = <<>>, !.err = "Exhausted"]
                /\ poolFree' = poolFree \ met
                /\ poolAllocated' = poolAllocated \cup met
           ELSE /\ poolLast' = [poolLast EXCEPT !.op = "Alloc", !.arg = n, !.res = run, !.err = "nil"]
                /\ poolFree' = poolFree \ PortsOf(run)
                /\ poolAllocated' = poolAllocated \cup PortsOf(run)
    /\ PoolFrame

\* An Alloc for which a block of no ports is a successful allocation.
AllocZeroSucceeds(n) ==
    /\ LET run == FirstRun(poolFree, n)
       IN  IF n = 0
           THEN /\ poolLast' = [poolLast EXCEPT !.op = "Alloc", !.arg = n, !.res = <<>>, !.err = "nil"]
                /\ UNCHANGED <<poolFree, poolAllocated>>
           ELSE IF run = <<>>
           THEN /\ poolLast' = [poolLast EXCEPT !.op = "Alloc", !.arg = n, !.res = <<>>, !.err = "Exhausted"]
                /\ UNCHANGED <<poolFree, poolAllocated>>
           ELSE /\ poolLast' = [poolLast EXCEPT !.op = "Alloc", !.arg = n, !.res = run, !.err = "nil"]
                /\ poolFree' = poolFree \ PortsOf(run)
                /\ poolAllocated' = poolAllocated \cup PortsOf(run)
    /\ PoolFrame

\* Alloc(n): InvalidArgument for n = 0; otherwise the first run of n
\* consecutive free ports is marked allocated and returned, or the call
\* fails with Exhausted and allocates nothing.
Alloc(n) ==
    /\ LET run == FirstRun(poolFree, n)
       IN  IF n = 0
           THEN /\ poolLast' = [poolLast EXCEPT !.op = "Alloc", !.arg = n, !.res = <<>>, !.err = "InvalidArgument"]
                /\ UNCHANGED <<poolFree, poolAllocated>>
           ELSE IF run = <<>>
           THEN /\ poolLast' = [poolLast EXCEPT !.op = "Alloc", !.arg = n, !.res = <<>>, !.err = "Exhausted"]
                /\ UNCHANGED <<poolFree, poolAllocated>>
           ELSE /\ poolLast' = [poolLast EXCEPT !.op = "Alloc", !.arg = n, !.res = run, !.err = "nil"]
                /\ poolFree' = poolFree \ PortsOf(run)
                /\ poolAllocated' = poolAllocated \cup PortsOf(run)
    /\ PoolFrame

\* A Free that ignores a port outside the declared range.
FreeInRangeOnly(port) ==
    /\ IF port \in PoolLow..PoolHigh
       THEN /\ poolFree' = poolFree \cup {port}
            /\ poolAllocated' = poolAllocated \ {port}
       ELSE UNCHANGED <<poolFree, poolAllocated>>
    /\ poolLast' = [op |-> "Free", arg |-> port, res |-> <<>>, err |-> "nil", freed |-> TRUE]
    /\ PoolFrame

\* Free(port): the port is marked free, whatever it was before.
Free(port) ==
    /\ poolFree' = poolFree \cup {port}
    /\ poolAllocated' = poolAllocated \ {port}
    /\ poolLast' = [op |-> "Free", arg |-> port, res |-> <<>>, err |-> "nil", freed |-> TRUE]
    /\ PoolFrame

PoolNext ==
    \/ \E n \in AllocSizes : Alloc(n)
    \/ \E port \in PortSpace : Free(port)

(***************************************************************************)
(* app: Server, its lifecycle calls and Run.                               *)
(***************************************************************************)
\* Number of worker goroutines Initialize starts with GFork.
SrvWorkers == 2

\* The goroutines that call Server.Close.
SrvClosers == {"S1", "S2"}

\* The server's steps leave the other components alone.
SrvFrame == UNCHANGED <<hlsVars, lsnVars, rtmpVars, apiVars, newVars, mainVars, poolVars,
    streamVars>>

\* NewServer.
SrvInit ==
    /\ srvState = "Init"
    /\ srvLock = "free"
    /\ srvQuit = 0
    /\ srvClosing = 0
    /\ srvWg = 0
    /\ srvRun = "idle"
    /\ srvClose = [c \in SrvClosers |-> [pc |-> "idle", found |-> "none"]]
    /\ srvLast = [op |-> "NewServer", res |-> "ok", forked |-> FALSE]

\* ParseConfig, under s.lock: panic unless Init, else Ready.
ServerParseConfig ==
    /\ srvLock = "free"
    /\ IF srvState # "Init"
       THEN /\ srvLast' = [srvLast EXCEPT !.op = "ParseConfig", !.res = "panic"]
            /\ UNCHANGED srvState
       ELSE /\ srvLast' = [srvLast EXCEPT !.op = "ParseConfig", !.res = "ok"]
            /\ srvState' = "Ready"
    /\ UNCHANGED <<srvLock, srvQuit, srvClosing, srvWg, srvRun, srvClose>>
    /\ SrvFrame

\* PrepareLogger, under s.lock: panic unless Ready.
ServerPrepareLogger ==
    /\ srvLock = "free"
    /\ srvLast' = [srvLast EXCEPT !.op = "PrepareLogger",
                                   !.res = IF srvState # "Ready" THEN "panic" ELSE "ok"]
    /\ UNCHANGED <<srvState, srvLock, srvQuit, srvClosing, srvWg, srvRun, srvClose>>
    /\ SrvFrame

\* Initialize, under s.lock: panic unless Ready; else the workers are
\* forked (wg.Add(1) for each, before its goroutine starts).  It is called
\* once in the Ready state.
ServerInitialize ==
    /\ srvLock = "free"
    /\ IF srvState # "Ready"
       THEN /\ srvLast' = [srvLast EXCEPT !.op = "Initialize", !.res = "panic"]
            /\ UNCHANGED srvWg
       ELSE /\ ~srvLast.forked
            /\ srvLast' = [op |-> "Initialize", res |-> "ok", forked |-> TRUE]
            /\ srvWg' = srvWg + SrvWorkers
    /\ UNCHANGED <<srvState, srvLock, srvQuit, srvClosing, srvRun, srvClose>>
    /\ SrvFrame

\* A worker terminates; when it panicked, its recover calls s.Quit().
ServerWorkerExit(panicked) ==
    /\ srvWg > 0
    /\ srvWg' = srvWg - 1
    /\ srvQuit' = IF panicked THEN 1 ELSE srvQuit
    /\ UNCHANGED <<srvState, srvLock, srvClosing, srvRun, srvClose, srvLast>>
    /\ SrvFrame

\* Run: the check under s.lock; panic unless Ready, else Running.
ServerRunEnter ==
    /\ srvRun \in {"idle", "returned"}
    /\ srvLock = "free"
    /\ IF srvState # "Ready"
       THEN /\ srvLast' = [srvLast EXCEPT !.op = "Run", !.res = "panic"]
            /\ UNCHANGED <<srvState, srvRun>>
       ELSE /\ srvState' = "Running"
            /\ srvRun' = "apply"
            /\ UNCHANGED srvLast
    /\ UNCHANGED <<srvLock, srvQuit, srvClosing, srvWg, srvClose>>
    /\ SrvFrame

\* Run: applyMultipleProcesses(core.Conf.Workers), which panics for a
\* negative number of workers; the deferred send on s.closing is the last
\* thing Run does then.
ServerRunApply(ok) ==
    /\ srvRun = "apply"
    /\ IF ok
       THEN /\ srvRun' = "loop"
            /\ UNCHANGED <<srvClosing, srvLast>>
       ELSE /\ srvRun' = "returned"
            /\ srvClosing' = 1
            /\ srvLast' = [srvLast EXCEPT !.op = "Run", !.res = "panic"]
    /\ UNCHANGED <<srvState, srvLock, srvQuit, srvWg, srvClose>>
    /\ SrvFrame

\* Run: case signal := <-s.sigs with SIGINT or SIGTERM: wc.Quit().
ServerRunSignal ==
    /\ srvRun = "loop"
    /\ srvQuit' = 1
    /\ UNCHANGED <<srvState, srvLock, srvClosing, srvWg, srvRun, srvClose, srvLast>>
    /\ SrvFrame

\* Run: case <-wc.QC(), followed by wc.Quit(), which puts a value back.
ServerRunQuit ==
    /\ srvRun = "loop"
    /\ srvQuit = 1
    /\ srvRun' = "wait"
    /\ UNCHANGED <<srvState, srvLock, srvQuit, srvClosing, srvWg, srvClose, srvLast>>
    /\ SrvFrame

\* Run: s.wg.Wait() returns, Run returns, and its deferred function posts
\* to s.closing (select with default) as the last thing Run does.
ServerRunReturn ==
    /\ srvRun = "wait"
    /\ srvWg = 0
    /\ srvRun' = "returned"
    /\ srvClosing' = 1
    /\ srvLast' = [srvLast EXCEPT !.op = "Run", !.res = "ok"]
    /\ UNCHANGED <<srvState, srvLock, srvQuit, srvWg, srvClose>>
    /\ SrvFrame

\* Close: s.lock.Lock().
ServerCloseLock(c) ==
    /\ srvClose[c].pc = "idle"
    /\ srvLock = "free"
    /\ srvLock' = c
    /\ srvClose' = [srvClose EXCEPT ![c] = [pc |-> "check", found |-> "none"]]
    /\ UNCHANGED <<srvState, srvQuit, srvClosing, srvWg, srvRun, srvLast>>
    /\ SrvFrame

\* A Close that does not wait for s.closing on a running server.
ServerCloseCheckNoWait(c) ==
    /\ srvClose[c].pc = "check"
    /\ IF srvState = "Closed"
       THEN /\ srvClose' = [srvClose EXCEPT ![c] = [pc |-> "idle", found |-> srvState]]
            /\ srvLock' = "free"
            /\ srvLast' = [srvLast EXCEPT !.op = "Close", !.res = "noop"]
            /\ UNCHANGED <<srvState, srvQuit>>
       ELSE /\ srvClose' = [srvClose EXCEPT ![c] = [pc |-> "idle", found |-> srvState]]
            /\ srvLock' = "free"
            /\ srvState' = "Closed"
            /\ srvQuit' = IF srvState = "Running" THEN 1 ELSE srvQuit
            /\ srvLast' = [srvLast EXCEPT !.op = "Close", !.res = "ok"]
    /\ UNCHANGED <<srvClosing, srvWg, srvRun>>
    /\ SrvFrame

\* Close: return when already Closed (the deferred Unlock runs); when
\* Running post to s.quit (select with default) and go on to wait for
\* s.closing; otherwise unsubscribe and set Closed.
ServerCloseCheck(c) ==
    /\ srvClose[c].pc = "check"
    /\ IF srvState = "Closed"
       THEN /\ srvClose' = [srvClose EXCEPT ![c] = [pc |-> "idle", found |-> srvState]]
            /\ srvLock' = "free"
            /\ srvLast' = [srvLast EXCEPT !.op = "Close", !.res = "noop"]
            /\ UNCHANGED <<srvState, srvQuit>>
       ELSE IF srvState = "Running"
       THEN /\ srvClose' = [srvClose EXCEPT ![c] = [pc |-> "wait", found |-> srvState]]
            /\ srvQuit' = 1
            /\ UNCHANGED <<srvState, srvLock, srvLast>>
       ELSE /\ srvClose' = [srvClose EXCEPT ![c] = [pc |-> "idle", found |-> srvState]]
            /\ srvLock' = "free"
            /\ srvState' = "Closed"
            /\ srvLast' = [srvLast EXCEPT !.op = "Close", !.res = "ok"]
            /\ UNCHANGED srvQuit
    /\ UNCHANGED <<srvClosing, srvWg, srvRun>>
    /\ SrvFrame

\* Close: <-s.closing, then unsubscribe, set Closed and return.
ServerCloseRecv(c) ==
    /\ srvClose[c].pc = "wait"
    /\ srvClosing = 1
    /\ srvClosing' = 0
    /\ srvState' = "Closed"
    /\ srvLock' = "free"
    /\ srvClose' = [srvClose EXCEPT ![c].pc = "idle"]
    /\ srvLast' = [srvLast EXCEPT !.op = "Close", !.res = "ok"]
    /\ UNCHANGED <<srvQuit, srvWg, srvRun>>
    /\ SrvFrame

SrvNext ==
    \/ ServerParseConfig
    \/ ServerPrepareLogger
    \/ ServerInitialize
    \/ \E panicked \in BOOLEAN : ServerWorkerExit(panicked)
    \/ ServerRunEnter
    \/ \E ok \in BOOLEAN : ServerRunApply(ok)
    \/ ServerRunSignal
    \/ ServerRunQuit
    \/ ServerRunReturn
    \/ \E c \in SrvClosers : ServerCloseLock(c)
    \/ \E c \in SrvClosers : ServerCloseCheck(c)
    \/ \E c \in SrvClosers : ServerCloseRecv(c)

(***************************************************************************)
(* The control API /api/v1/proxy of rtmplb (serveApi) and of httplb        *)
(* (serveChangeBackendApi), step by step.  net/http runs every request in  *)
(* a goroutine of its own and neither handler takes a lock, so the steps   *)
(* of two requests interleave.                                             *)
(***************************************************************************)
\* The goroutines serving control API requests.
ApiCallers == {"R1", "R2"}
\* Values of the query parameter (?rtmp= or ?http=); "" when it is missing.
Queries == {"", "x", "-1", "0", "1"}

\* strconv.Atoi on the values of Queries: the integer, or an error.
Atoi(str) ==
    CASE str = "-1" -> [err |-> FALSE, val |-> -1]
      [] str = "0"  -> [err |-> FALSE, val |-> 0]
      [] str = "1"  -> [err |-> FALSE, val |-> 1]
      [] OTHER      -> [err |-> TRUE, val |-> 0]

\* The loop of hasProxyed over a slice.
HasPort(slice, port) == \E k \in 1..Len(slice) : slice[k] = port

\* A request goroutine that serves no request.
ApiIdle(b, q, res, wrote, known) ==
    [bal |-> b, pc |-> "idle", q |-> q, port |-> 0, snap |-> <<>>,
     res |-> res, wrote |-> wrote, known |-> known]

ApiInit ==
    /\ httpPorts = <<>>
    /\ httpActivePort = 0
    /\ api = [r \in ApiCallers |-> ApiIdle("rtmplb", "", "none", FALSE, FALSE)]
    /\ apiCalls = 0

\* The steps of rtmplb's control API leave the rest alone.
RtmpApiFrame ==
    /\ UNCHANGED <<h, task, rclosing, rwait, sock, rtmpHist>>
    /\ RtmpRunning
    /\ UNCHANGED <<httpPorts, httpActivePort>>
    /\ UNCHANGED <<hlsVars, lsnVars, newVars, mainVars, poolVars, srvVars, streamVars>>

\* The steps of httplb's control API leave the rest alone.
HttpApiFrame == UNCHANGED <<hlsVars, lsnVars, rtmpVars, newVars, mainVars, poolVars, srvVars,
    streamVars>>

\* The parsing both handlers begin with: a missing (empty) parameter and a
\* parameter that is not an integer end the request with ApiProxyQuery;
\* otherwise the handler goes on with the port.
ApiParse(b, q) ==
    IF q = "" \/ Atoi(q).err
    THEN ApiIdle(b, q, "ApiProxyQuery", FALSE, FALSE)
    ELSE [bal |-> b, pc |-> "check", q |-> q, port |-> Atoi(q).val, snap |-> <<>>,
          res |-> "none", wrote |-> FALSE, known |-> FALSE]

\* rtmplb: a request arrives and serveApi parses ?rtmp=.
serveApiRequest(r, q) ==
    /\ api[r].pc = "idle"
    /\ apiCalls < MaxApiCalls
    /\ apiCalls' = apiCalls + 1
    /\ api' = [api EXCEPT ![r] = ApiParse("rtmplb", q)]
    /\ UNCHANGED <<ports, activePort>>
    /\ RtmpApiFrame

\* rtmplb: if !v.hasProxyed(port).
serveApiCheck(r) ==
    /\ api[r].pc = "check" /\ api[r].bal = "rtmplb"
    /\ api' = [api EXCEPT ![r].pc = IF hasProxyed(api[r].port) THEN "set" ELSE "read"]
    /\ UNCHANGED <<ports, activePort, apiCalls>>
    /\ RtmpApiFrame

\* rtmplb: the read of v.ports in v.ports = append(v.ports, port).
serveApiRead(r) ==
    /\ api[r].pc = "read" /\ api[r].bal = "rtmplb"
    /\ api' = [api EXCEPT ![r].pc = "append", ![r].snap = ports]
    /\ UNCHANGED <<ports, activePort, apiCalls>>
    /\ RtmpApiFrame

\* rtmplb: the write of v.ports in v.ports = append(v.ports, port).
serveApiAppend(r) ==
    /\ api[r].pc = "append" /\ api[r].bal = "rtmplb"
    /\ ports' = Append(api[r].snap, api[r].port)
    /\ api' = [api EXCEPT ![r].pc = "set", ![r].snap = <<>>, ![r].wrote = TRUE]
    /\ UNCHANGED <<activePort, apiCalls>>
    /\ RtmpApiFrame

\* rtmplb: v.activePort = port, then the response oh.Data(v.ctx, nil).
serveApiSet(r) ==
    /\ api[r].pc = "set" /\ api[r].bal = "rtmplb"
    /\ activePort' = api[r].port
    /\ api' = [api EXCEPT ![r] = ApiIdle("rtmplb", api[r].q, "Success", TRUE,
                                         hasProxyed(api[r].port))]
    /\ UNCHANGED <<ports, apiCalls>>
    /\ RtmpApiFrame

\* httplb: a request arrives and serveChangeBackendApi parses ?http=.
serveChangeBackendApiRequest(r, q) ==
    /\ api[r].pc = "idle"
    /\ apiCalls < MaxApiCalls
    /\ apiCalls' = apiCalls + 1
    /\ api' = [api EXCEPT ![r] = ApiParse("httplb", q)]
    /\ UNCHANGED <<httpPorts, httpActivePort>>
    /\ HttpApiFrame

\* httplb: if !hasProxyed(port).
serveChangeBackendApiCheck(r) ==
    /\ api[r].pc = "check" /\ api[r].bal = "httplb"
    /\ api' = [api EXCEPT ![r].pc = IF HasPort(httpPorts, api[r].port) THEN "set" ELSE "read"]
    /\ UNCHANGED <<httpPorts, httpActivePort, apiCalls>>
    /\ HttpApiFrame

\* httplb: the read of v.ports in v.ports = append(v.ports, port).
serveChangeBackendApiRead(r) ==
    /\ api[r].pc = "read" /\ api[r].bal = "httplb"
    /\ api' = [api EXCEPT ![r].pc = "append", ![r].snap = httpPorts]
    /\ UNCHANGED <<httpPorts, httpActivePort, apiCalls>>
    /\ HttpApiFrame

\* httplb: the write of v.ports in v.ports = append(v.ports, port).
serveChangeBackendApiAppend(r) ==
    /\ api[r].pc = "append" /\ api[r].bal = "httplb"
    /\ httpPorts' = Append(api[r].snap, api[r].port)
    /\ api' = [api EXCEPT ![r].pc = "set", ![r].snap = <<>>, ![r].wrote = TRUE]
    /\ UNCHANGED <<httpActivePort, apiCalls>>
    /\ HttpApiFrame

\* httplb: v.activePort = port and return "", Success; the handler in main
\* then answers oh.Data(ctx, nil).
serveChangeBackendApiSet(r) ==
    /\ api[r].pc = "set" /\ api[r].bal = "httplb"
    /\ httpActivePort' = api[r].port
    /\ api' = [api EXCEPT ![r] = ApiIdle("httplb", api[r].q, "Success", TRUE,
                                         HasPort(httpPorts, api[r].port))]
    /\ UNCHANGED <<httpPorts, apiCalls>>
    /\ HttpApiFrame

ApiNext ==
    \/ \E r \in ApiCallers, q \in Queries : serveApiRequest(r, q)
    \/ \E r \in ApiCallers : serveApiCheck(r)
    \/ \E r \in ApiCallers : serveApiRead(r)
    \/ \E r \in ApiCallers : serveApiAppend(r)
    \/ \E r \in ApiCallers : serveApiSet(r)
    \/ \E r \in ApiCallers, q \in Queries : serveChangeBackendApiRequest(r, q)
    \/ \E r \in ApiCallers : serveChangeBackendApiCheck(r)
    \/ \E r \in ApiCallers : serveChangeBackendApiRead(r)
    \/ \E r \in ApiCallers : serveChangeBackendApiAppend(r)
    \/ \E r \in ApiCallers : serveChangeBackendApiSet(r)

(***************************************************************************)
(* httplb: serveHttp, the routing of a client request, and the control     *)
(* API handled one request at a time.                                      *)
(***************************************************************************)
\* r.URL.Path, as the sequence of its pieces; the last piece is what
\* strings.HasSuffix looks at.
Paths == {<<"/live", ".m3u8">>, <<"/live", ".ts">>, <<"/live", ".flv">>,
          <<"/live", ".aac">>, <<"/live", ".mp3">>, <<"/live", ".xml">>,
          <<"/live", ".mp4">>, <<"/live">>, <<".m3u8", "/live">>, <<".flv", "/live">>}

\* strings.HasSuffix(p, suffix) for a suffix that is one piece.
HasSuffix(path, suffix) == Len(path) > 0 /\ path[Len(path)] = suffix

\* A test of the active port that lets port 0 through.
BackendNotReadyNegativeOnly(port) == port < 0

\* serveHttp: v.activePort <= 0.
BackendNotReady(port) == port <= 0

\* A classification that sends every .ts request to HLS+.
IsHlsPlusAnyTs(path, uuid) == HasSuffix(path, ".m3u8") \/ HasSuffix(path, ".ts")

\* serveHttp: isHlsPlus.
IsHlsPlus(path, uuid) ==
    \/ HasSuffix(path, ".m3u8")
    \/ (HasSuffix(path, ".ts") /\ uuid # "")

\* serveHttp: hasAnySuffixes(p, ".flv", ".ts", ".aac", ".mp3", ".xml").
IsHttpStream(path) ==
    \E suffix \in {".flv", ".ts", ".aac", ".mp3", ".xml"} : HasSuffix(path, suffix)

\* The remote addresses client requests to httplb come from.
HttpClients == {"a1"}

\* The ports a control API request of httplb may name.
HttpPortInputs == {-1, 0, 1}

\* The history record of a request serveHttp handled: what was done with
\* it and the shp_uuid it carried.
HttpResult(op, uuid) ==
    [op |-> op, uuid |-> uuid, xpsid |-> "", conn |-> 0,
     prevConn |-> 0, xpsidConn |-> 0]

\* proxy.serveHttp for one client request: the "Backend not ready" error
\* while no backend is active; else serveHlsPlus (hlsPlusProxy.serve, under
\* its lock) for an HLS+ request, serveHttpStream for a stream request, and
\* a return that forwards nothing for any other path.
serveHttp(path, uuid, xpsid, addr) ==
    /\ IF BackendNotReady(httpActivePort)
       THEN /\ hlsLast' = HttpResult("notReady", uuid)
            /\ UNCHANGED <<vconns, virtualConns, appConns, tcpConns, now, rpTransport>>
       ELSE IF IsHlsPlus(path, uuid)
       THEN /\ LockAvailable
            /\ ServeUpdate(uuid, xpsid, addr)
            /\ hlsLast' = HttpResult("hlsPlus", uuid)
       ELSE IF IsHttpStream(path)
       THEN /\ hlsLast' = HttpResult("stream", uuid)
            /\ UNCHANGED <<vconns, virtualConns, appConns, tcpConns, now, rpTransport>>
       ELSE /\ hlsLast' = HttpResult("ignored", uuid)
            /\ UNCHANGED <<vconns, virtualConns, appConns, tcpConns, now, rpTransport>>
    /\ UNCHANGED <<uuidSeen, addrSeen, hlsLock, fwd, fwdLast>>
    /\ HlsFrame

\* serveChangeBackendApi with ?http=<port>, port an integer, handled from
\* its first to its last statement with no other request in between.
serveChangeBackendApi(port) ==
    /\ httpPorts' = IF ~HasPort(httpPorts, port) THEN Append(httpPorts, port) ELSE httpPorts
    /\ httpActivePort' = port
    /\ UNCHANGED <<api, apiCalls>>
    /\ HttpApiFrame

HttpNext ==
    \/ \E port \in HttpPortInputs : serveChangeBackendApi(port)
    \/ \E path \in Paths, uuid \in OptIds, xpsid \in OptIds, addr \in HttpClients :
          serveHttp(path, uuid, xpsid, addr)

(***************************************************************************)
(* httplb: serveHttpStream, step by step.  net/http runs every request in  *)
(* a goroutine of its own, serveHttpStream takes no lock, and all requests *)
(* go through the one reverse proxy v.httpStreamProxy.                     *)
(***************************************************************************)
\* Number of stream requests the clients make.
MaxStreams == 3

\* The goroutines of the HTTP server that serve stream requests.
StreamServers == {"H1", "H2"}

\* The paths of the requests serveHttp hands to serveHttpStream: those
\* hasAnySuffixes accepts, of requests that are not HLS+ (no shp_uuid).
StreamPaths == {path \in Paths : IsHttpStream(path) /\ ~IsHlsPlus(path, "")}

\* http.DefaultTransport, the one object shared by the process.  The
\* objects createHttpTransport returns are numbered from 1.
DefaultTransport == 0

\* The steps of serveHttpStream leave the other components alone.
StreamFrame == UNCHANGED <<hlsVars, lsnVars, rtmpVars, apiVars, newVars, mainVars, poolVars,
    srvVars>>

\* A goroutine that serves no stream request.
StreamIdle == [pc |-> "idle", path |-> <<>>, set |-> DefaultTransport]

\* NewProxy: the reverse proxy is created with no Transport, for which
\* httputil.ReverseProxy uses http.DefaultTransport.
StreamInit ==
    /\ httpStreamTransport = DefaultTransport
    /\ transportsCreated = 0
    /\ stream = [g \in StreamServers |-> StreamIdle]
    /\ streamCalls = 0
    /\ streamLast = [path |-> <<>>, set |-> DefaultTransport, used |-> DefaultTransport]

\* serveHttpStream begins for a request with the given path:
\* v.httpStreamProxy.Director = func(...){...}.
serveHttpStreamDirector(g, path) ==
    /\ stream[g].pc = "idle"
    /\ streamCalls < MaxStreams
    /\ streamCalls' = streamCalls + 1
    /\ stream' = [stream EXCEPT ![g] = [pc |-> "transport", path |-> path,
                                        set |-> DefaultTransport]]
    /\ UNCHANGED <<httpStreamTransport, transportsCreated, streamLast>>
    /\ StreamFrame

\* serveHttpStream: the assignment of v.httpStreamProxy.Transport,
\* http.DefaultTransport for an .xml request and a new transport from
\* createHttpTransport() for any other.
serveHttpStreamTransport(g) ==
    /\ stream[g].pc = "transport"
    /\ IF HasSuffix(stream[g].path, ".xml")
       THEN /\ httpStreamTransport' = DefaultTransport
            /\ stream' = [stream EXCEPT ![g].pc = "forward", ![g].set = DefaultTransport]
            /\ UNCHANGED transportsCreated
       ELSE /\ transportsCreated' = transportsCreated + 1
            /\ httpStreamTransport' = transportsCreated + 1
            /\ stream' = [stream EXCEPT ![g].pc = "forward",
                                        ![g].set = transportsCreated + 1]
    /\ UNCHANGED <<streamCalls, streamLast>>
    /\ StreamFrame

\* serveHttpStream: v.httpStreamProxy.ServeHTTP(w, r), which sends the
\* request on the transport v.httpStreamProxy.Transport holds when it is
\* read; serveHttpStream returns.
serveHttpStreamForward(g) ==
    /\ stream[g].pc = "forward"
    /\ streamLast' = [path |-> stream[g].path, set |-> stream[g].set,
                      used |-> httpStreamTransport]
    /\ stream' = [stream EXCEPT ![g] = StreamIdle]
    /\ UNCHANGED <<httpStreamTransport, transportsCreated, streamCalls>>
    /\ StreamFrame

StreamNext ==
    \/ \E g \in StreamServers, path \in StreamPaths : serveHttpStreamDirector(g, path)
    \/ \E g \in StreamServers : serveHttpStreamTransport(g)
    \/ \E g \in StreamServers : serveHttpStreamForward(g)

Init == HlsInit /\ LsnInit /\ RtmpInit /\ ApiInit /\ NewInit /\ MainInit /\ PoolInit
        /\ SrvInit /\ StreamInit

\* httplb: stream requests served concurrently.
SpecStream == Init /\ [][StreamNext]_vars

\* app: the lifecycle calls of Server, Run and the workers.
SpecSrv == Init /\ [][SrvNext]_vars

\* The port allocator: calls of Alloc and Free, one at a time.
SpecPool == Init /\ [][PoolNext]_vars

\* rtmplb: main and its goroutines.
SpecMain == Init /\ [][MainNext]_vars

\* kernel: calls of NewTcpListeners.
SpecNew == Init /\ [][NewNext]_vars

\* httplb: client requests and control API requests, one at a time.
SpecHttp == Init /\ [][HttpNext]_vars

\* The control APIs of the two balancers alone.
SpecApi == Init /\ [][ApiNext]_vars

\* The HLS+ affinity proxy alone.
SpecHls == Init /\ [][HlsNext]_vars

\* The HLS+ affinity proxy with requests served concurrently.
SpecHlsFwd == Init /\ [][HlsFwdNext]_vars

\* The listener multiplexer alone.
SpecLsn == Init /\ [][LsnNext]_vars

\* The listener multiplexer under the Go scheduler: a goroutine that can
\* take a step of its own eventually takes one, and a goroutine waiting
\* for disposeLock is not starved of it (sync.Mutex hands the lock over to
\* a starving waiter).  Calls of the API and arrivals on the sockets are
\* under no obligation.
FairSpecLsn == SpecLsn /\ LsnFairness

\* The RTMP stream proxy alone.
SpecRtmp == Init /\ [][RtmpNext]_vars

\* The RTMP stream proxy under the Go scheduler: the handler and the copy
\* goroutines take the steps they can take.  Control API requests, the
\* arrival of the connection and what the peers send are under no
\* obligation.
FairSpecRtmp == SpecRtmp /\ RtmpFairness

(***************************************************************************)
(* Claims about the HLS+ affinity proxy.                                   *)
(***************************************************************************)
\* C1: a request carrying a non-empty shp_uuid resolves to the virtual
\* connection the previous request with that shp_uuid resolved to, when that
\* session was never idle in between.
C1_SameUuidSameSession ==
    (hlsLast.op = "serve" /\ hlsLast.prevConn # 0) => hlsLast.conn = hlsLast.prevConn

\* C2: a request without shp_uuid that carries a playback-session-id K
\* resolves to the virtual connection indexed under K in appConns.
C2_XpsidResolvesToIndexed ==
    (hlsLast.op = "serve" /\ hlsLast.uuid = "" /\ hlsLast.xpsidConn # 0)
        => hlsLast.conn = hlsLast.xpsidConn

\* C3: right after an idle sweep no entry of virtualConns, appConns or
\* tcpConns points to an idle virtual connection.
C3_NoIdleEntryAfterSweep ==
    hlsLast.op = "cleanup" =>
        \A m \in {virtualConns, appConns, tcpConns} :
            \A k \in DOMAIN m : ~IsIdle(vconns[m[k]], now)

\* C17: handling an HLS+ request removes no entry of virtualConns, appConns
\* or tcpConns and leaves every entry that exists pointing to the virtual
\* connection it pointed to.
C17_ServeKeepsIndexEntries ==
    [][hlsLast'.op = "serve" =>
          /\ \A k \in DOMAIN virtualConns :
                k \in DOMAIN virtualConns' /\ virtualConns'[k] = virtualConns[k]
          /\ \A k \in DOMAIN appConns :
                k \in DOMAIN appConns' /\ appConns'[k] = appConns[k]
          /\ \A k \in DOMAIN tcpConns :
                k \in DOMAIN tcpConns' /\ tcpConns'[k] = tcpConns[k]]_vars

\* C18: every virtual connection is the value of at most one key of
\* virtualConns, of at most one key of appConns and of at most one key of
\* tcpConns.
C18_OneKeyPerIndex ==
    \A c \in 1..Len(vconns) :
        \A m \in {virtualConns, appConns, tcpConns} :
            Cardinality({k \in DOMAIN m : m[k] = c}) <= 1

\* C19: every virtual connection keeps the transport it was created with,
\* which no other virtual connection has, and a request is forwarded with
\* the transport of the virtual connection it was resolved to, also when
\* several goroutines serve requests.
C19_ForwardedWithOwnTransport ==
    /\ \A c \in 1..Len(vconns) : vconns[c].transport = c
    /\ (fwdLast.conn # 0 => fwdLast.used = vconns[fwdLast.conn].transport)

\* C19 witness: a request resolved to the session created first has just
\* been forwarded with that session's transport, after the reverse proxy
\* had held the transport of the session created second.
C19_Witness ==
    /\ Len(vconns) >= 2
    /\ fwdLast.conn = 1 /\ fwdLast.used = vconns[1].transport

\* C20: a request without shp_uuid and without playback-session-id from
\* address a gets the session under tcpConns[a] when there is one; otherwise
\* a session is created and entered under a in tcpConns only; and it gets
\* the session the last such request from a got, when that session has not
\* been idle since.
C20_NoIdsResolveByAddr ==
    [][\A a \in Addrs :
          HlsServe("", "", a) =>
              /\ (a \in DOMAIN tcpConns =>
                     hlsLast'.conn = tcpConns[a] /\ Len(vconns') = Len(vconns))
              /\ (a \notin DOMAIN tcpConns =>
                     /\ hlsLast'.conn = Len(vconns) + 1
                     /\ Len(vconns') = Len(vconns) + 1
                     /\ virtualConns' = virtualConns
                     /\ appConns' = appConns
                     /\ tcpConns' = MapPut(tcpConns, a, Len(vconns) + 1))
              /\ ((addrSeen.addr = a /\ addrSeen.live) =>
                     hlsLast'.conn = addrSeen.conn)]_vars

\* C21: while activePort <= 0 a client request to httplb, whatever its
\* path, is answered "Backend not ready"; it is not forwarded and no
\* virtual connection is created or updated.
C21_NotReadyWithoutBackend ==
    [][\A path \in Paths, uuid \in OptIds, xpsid \in OptIds, addr \in HttpClients :
          (httpActivePort <= 0 /\ serveHttp(path, uuid, xpsid, addr)) =>
              /\ hlsLast'.op = "notReady"
              /\ vconns' = vconns
              /\ virtualConns' = virtualConns
              /\ appConns' = appConns
              /\ tcpConns' = tcpConns
              /\ rpTransport' = rpTransport]_vars

\* C21 witness: sessions exist, the active port is not positive (any more)
\* and a request has been answered "Backend not ready".
C21_Witness ==
    /\ Len(vconns) > 0
    /\ httpActivePort <= 0
    /\ hlsLast.op = "notReady"

\* C22: with a backend active, a request goes to HLS+ iff its path ends in
\* .m3u8, or ends in .ts with a non-empty shp_uuid; otherwise it goes to
\* the stream proxy, touching no virtual connection, iff its path ends in
\* .flv, .ts, .aac, .mp3 or .xml; any other request is not forwarded.
C22_RoutingBySuffix ==
    [][\A path \in Paths, uuid \in OptIds, xpsid \in OptIds, addr \in HttpClients :
          (httpActivePort > 0 /\ serveHttp(path, uuid, xpsid, addr)) =>
              LET last == IF path = <<>> THEN "" ELSE path[Len(path)]
                  affinity == last = ".m3u8" \/ (last = ".ts" /\ uuid # "")
                  plain == ~affinity /\ last \in {".flv", ".ts", ".aac", ".mp3", ".xml"}
              IN  /\ (hlsLast'.op = "hlsPlus") <=> affinity
                  /\ (hlsLast'.op = "stream") <=> plain
                  /\ (~affinity /\ ~plain) => hlsLast'.op = "ignored"
                  /\ (~affinity =>
                        /\ vconns' = vconns
                        /\ virtualConns' = virtualConns
                        /\ appConns' = appConns
                        /\ tcpConns' = tcpConns)]_vars

\* C22 witness: with a backend active, a .ts request without shp_uuid has
\* gone to the stream proxy after an HLS+ session was created.
C22_Witness ==
    /\ httpActivePort > 0
    /\ Len(vconns) > 0
    /\ hlsLast.op = "stream" /\ hlsLast.uuid = ""

\* C35: an idle sweep removes no entry of virtualConns, appConns or tcpConns
\* that points to a virtual connection that is not idle, and leaves every
\* such entry pointing to that virtual connection.
C35_SweepKeepsLiveEntries ==
    [][hlsLast'.op = "cleanup" =>
          /\ \A k \in DOMAIN virtualConns :
                ~IsIdle(vconns[virtualConns[k]], now) =>
                    k \in DOMAIN virtualConns' /\ virtualConns'[k] = virtualConns[k]
          /\ \A k \in DOMAIN appConns :
                ~IsIdle(vconns[appConns[k]], now) =>
                    k \in DOMAIN appConns' /\ appConns'[k] = appConns[k]
          /\ \A k \in DOMAIN tcpConns :
                ~IsIdle(vconns[tcpConns[k]], now) =>
                    k \in DOMAIN tcpConns' /\ tcpConns'[k] = tcpConns[k]]_vars

\* C39: v.lock is not held while a goroutine forwards its request to the
\* backend, so other requests can be resolved and the idle sweep can run.
C39_LockFreeWhileForwarding ==
    \A g \in Servers : fwd[g].pc = "forward" => hlsLock = "free"

\* C40: a stream request whose path does not end in .xml is sent on the
\* transport created for it, which is not the default transport; a request
\* whose path ends in .xml is sent on http.DefaultTransport.
C40_StreamOnOwnTransport ==
    streamLast.path # <<>> =>
        IF HasSuffix(streamLast.path, ".xml")
        THEN streamLast.used = DefaultTransport
        ELSE streamLast.used = streamLast.set /\ streamLast.used # DefaultTransport

(***************************************************************************)
(* Claims about the listener multiplexer.                                  *)
(***************************************************************************)
\* C4: an AcceptTCP call that begins after a Close call has returned
\* returns ListenerDisposed, never a connection or an accept error.
C4_AcceptAfterCloseDisposed ==
    \A a \in Accepters :
        (acc[a].late /\ acc[a].pc = "idle") => acc[a].res = "ListenerDisposed"

\* C4 witness: on a listener that was started, a call of AcceptTCP begun
\* after Close returned has returned ListenerDisposed.
C4_Witness ==
    \E a \in Accepters :
        /\ listenRes = "nil"
        /\ acc[a].late /\ acc[a].pc = "idle" /\ acc[a].res = "ListenerDisposed"

\* C5: an AcceptTCP call that is blocked in its select while a Close call is
\* under way eventually returns.
C5_BlockedAcceptReturns ==
    \A a \in Accepters :
        (acc[a].pc = "select" /\ \E c \in Closers : cls[c].pc # "idle")
            ~> (acc[a].pc = "idle")

\* C6: once the first Close call has returned, every accept loop that
\* ListenTCP launched has exited.
C6_LoopsExitedWhenCloseReturns ==
    lsnHist.nilCloses > 0 => \A i \in Addresses : loop[i] \in {"none", "done"}

\* C7: only one Close call ever returns nil, a Close call that begins after
\* another has returned returns ListenerDisposed, and no socket and no
\* channel is closed twice.
C7_LaterCloseDisposedNoDoubleClose ==
    /\ lsnHist.nilCloses <= 1
    /\ ~lsnHist.doubleClose
    /\ \A c \in Closers :
          (cls[c].late /\ cls[c].pc = "idle") => cls[c].res = "ListenerDisposed"

\* C7 witness: on a started and closed listener, a later Close call has
\* returned ListenerDisposed.
C7_Witness ==
    \E c \in Closers :
        /\ listenRes = "nil" /\ chansClosed
        /\ \A i \in Addresses : listeners[i] = "closed"
        /\ cls[c].late /\ cls[c].pc = "idle" /\ cls[c].res = "ListenerDisposed"

\* C23: with several AcceptTCP calls in their select at once, a connection
\* or an accept error that an accept loop hands over is returned by exactly
\* one of the calls, and a call returns a connection or an error only when
\* one loop handed it over: nothing is returned twice or to two callers.
C23_EachResultToOneCaller ==
    [][LET sentConn == {i \in Addresses : loop[i] = "gotconn" /\ loop'[i] = "accept"}
           sentErr == {i \in Addresses : loop[i] = "senderr" /\ loop'[i] = "done"}
           returned(r) == {a \in Accepters :
                             acc[a].pc = "select" /\ acc'[a].pc = "idle" /\ acc'[a].res = r}
       IN  /\ Cardinality(returned("conn")) = Cardinality(sentConn)
           /\ Cardinality(returned("err")) = Cardinality(sentErr)
           /\ Cardinality(returned("conn") \cup returned("err")) <= 1
           /\ \A a \in Accepters :
                 (acc'[a].res \in {"conn", "err"} /\ acc'[a] # acc[a]) =>
                     a \in returned("conn") \cup returned("err")]_vars

\* C23 witness: of two AcceptTCP calls waiting at once, one has returned
\* a connection and the other is still waiting.
C23_Witness ==
    \E a, b \in Accepters :
        /\ a # b
        /\ acc[a].pc = "idle" /\ acc[a].res = "conn"
        /\ acc[b].pc = "select"
        /\ \E i \in Addresses : loop[i] = "gotconn"

\* C24: disposed is terminal.  v.disposed never becomes false again;
\* ListenTCP on a disposed listener returns ListenerDisposed, binds no
\* socket and launches no accept loop; and once a Close call has returned
\* no socket is opened, no loop is launched and no connection is accepted.
C24_DisposedIsTerminal ==
    [][/\ disposed => disposed'
       /\ \A failAt \in 1..(NumAddrs + 1) :
             (disposed /\ ListenTCP(failAt)) =>
                 /\ listenRes' = "ListenerDisposed"
                 /\ listeners' = listeners
                 /\ loop' = loop
       /\ lsnHist.closeDone =>
             \A i \in Addresses :
                 /\ listeners'[i] = "open" => listeners[i] = "open"
                 /\ loop'[i] = "launched" => loop[i] = "launched"
                 /\ loop'[i] = "gotconn" => loop[i] = "gotconn"]_vars

\* C24 witness: a listener that was started and then closed has answered
\* a later ListenTCP with ListenerDisposed.
C24_Witness ==
    /\ listenRes = "ListenerDisposed"
    /\ lsnHist.nilCloses > 0
    /\ \A i \in Addresses : listeners[i] = "closed" /\ loop[i] = "done"

\* C25: when net.Listen fails for an address, ListenTCP returns the error
\* and no accept loop is started, neither for the failing address nor for
\* the addresses bound before it.
C25_BindFailureStartsNoLoop ==
    [][\A failAt \in Addresses :
          (~disposed /\ ListenTCP(failAt)) =>
              /\ listenRes' = "error"
              /\ \A i \in Addresses : loop'[i] = "none"]_vars

\* C25 witness: the first address is bound, the second failed, ListenTCP
\* returned the error and no loop exists.
C25_Witness ==
    /\ listenRes = "error"
    /\ listeners[1] = "open"
    /\ listeners[NumAddrs] = "unbound"
    /\ \A i \in Addresses : loop[i] = "none"

\* C26: NewTcpListeners fails when the address list is empty, or some
\* address does not begin with tcp://, tcp4:// or tcp6://, or does not
\* contain "://" exactly once; for every other list it succeeds.  In both
\* cases no socket is open, and the listener is not started.
C26_ConstructionValidatesAddresses ==
    newRes # "none" =>
        /\ newRes = "nil" <=>
              /\ Len(newArgs) > 0
              /\ \A k \in 1..Len(newArgs) :
                    LET v == newArgs[k]
                    IN  /\ Len(v) >= 2
                        /\ v[1] \in {"tcp", "tcp4", "tcp6"}
                        /\ v[2] = "://"
                        /\ \A j \in 3..Len(v) : v[j] # "://"
        /\ \A i \in Addresses : listeners[i] = "unbound" /\ loop[i] = "none"
        /\ listenRes = "none" /\ ~disposed

\* C26 witness: a list of as many valid addresses as the bound allows,
\* of different networks, was accepted.
C26_Witness ==
    /\ newRes = "nil"
    /\ Len(newArgs) = MaxListens
    /\ newArgs[1][1] # newArgs[MaxListens][1]

\* C37: a connection an accept loop holds leaves the loop in one of two
\* ways: handed over, and then exactly one AcceptTCP call returns it in that
\* step; or closed by the loop after the re-post of the closing signal, and
\* then no AcceptTCP call returns a connection in that step.  Once a Close
\* call has returned no loop holds a connection.
C37_ConnReturnedOnceOrClosed ==
    [][LET held == {"gotconn", "repostConn"}
           returned == {a \in Accepters :
                          acc[a].pc = "select" /\ acc'[a].pc = "idle" /\ acc'[a].res = "conn"}
       IN  /\ \A i \in Addresses :
                 /\ loop[i] = "gotconn" => loop'[i] \in {"gotconn", "repostConn", "accept"}
                 /\ loop[i] = "repostConn" => loop'[i] \in {"repostConn", "accept"}
                 /\ (loop[i] = "gotconn" /\ loop'[i] = "accept") =>
                        Cardinality(returned) = 1
                 /\ (loop[i] = "repostConn" /\ loop'[i] = "accept") =>
                        returned = {} /\ acc' = acc
           /\ lsnHist'.closeDone => \A i \in Addresses : loop'[i] \notin held]_vars

\* C37 witness: Close has returned nil on a started listener after an
\* AcceptTCP call returned a connection; every accept loop has exited, none
\* holding a connection, and the closing signal is posted.
C37_Witness ==
    /\ lsnHist.nilCloses > 0 /\ listenRes = "nil"
    /\ \E a \in Accepters : acc[a].pc = "idle" /\ acc[a].res = "conn"
    /\ \A i \in Addresses : loop[i] = "done"
    /\ closing = 1

C33_CloseReturns ==
    \A c \in Closers : (cls[c].pc # "idle") ~> (cls[c].pc = "idle")

(***************************************************************************)
(* Claims about the RTMP stream proxy.                                     *)
(***************************************************************************)
\* C8: once a copy goroutine has finished, the client socket and the
\* backend socket are eventually closed.
C8_CopyEndClosesSockets ==
    (\E t \in Tasks : task[t] \in {"finish", "signaled", "done"})
        ~> (sock.client = "closed" /\ sock.backend = "closed")

\* C9: while the active port has not been positive at any time of the
\* handling, serveRtmp has dialed nothing, has made at most RetryMax
\* attempts and slept at most RetryMax times, never pumps, and when it has
\* returned the client is closed and err is not nil.
C9_NoBackendNoDial ==
    (h.pc # "idle" /\ ~rtmpHist.portSet) =>
        /\ h.dials = 0
        /\ h.attempts <= RetryMax
        /\ h.sleeps <= RetryMax
        /\ h.pc \in {"loop", "check", "sleep", "returned"}
        /\ (h.pc = "returned" => sock.client = "closed" /\ h.err = "error")

\* C9 witness: serveRtmp has returned after RetryMax attempts with the
\* active port unset throughout.
C9_Witness ==
    /\ h.pc = "returned" /\ ~rtmpHist.portSet
    /\ h.attempts = RetryMax /\ sock.client = "closed"

\* C10: serveRtmp dials at most RetryMax times, makes no attempt once it
\* has a backend, and when it returns without a backend the client is
\* closed, no byte was forwarded, no copy goroutine exists and err is not nil.
C10_BoundedDialsNoPartialForwarding ==
    /\ h.dials <= RetryMax
    /\ h.attempts <= RetryMax
    /\ (h.backend # 0 => h.pc \notin {"check", "dial", "sleep"})
    /\ ((h.pc = "returned" /\ h.backend = 0) =>
          /\ sock.client = "closed"
          /\ ~rtmpHist.forwarded
          /\ \A t \in Tasks : task[t] = "none"
          /\ h.err = "error")

\* C10 witness: serveRtmp has returned without a backend after RetryMax
\* failed dials.
C10_Witness ==
    /\ h.pc = "returned" /\ h.backend = 0
    /\ h.dials = RetryMax /\ sock.client = "closed"

\* C11: every dial serveRtmp makes for a connection goes to the port that
\* v.activePort held when the connection's first attempt read it.
C11_DialsTargetFirstPort ==
    h.dials > 0 => h.target = h.first

\* C12: once the dial of a connection has succeeded, no step changes its
\* backend, dials or attempts again, and a step that changes v.activePort
\* changes nothing of the connection, its sockets or its copy goroutines;
\* the dial that succeeds goes to the port active at that moment.
C12_NoMigrationAfterDial ==
    [][/\ (h.backend # 0 =>
             /\ h'.backend = h.backend
             /\ h'.dials = h.dials
             /\ h'.attempts = h.attempts
             /\ (activePort' # activePort =>
                    h' = h /\ sock' = sock /\ task' = task))
       /\ ((h.backend = 0 /\ h'.backend # 0) => h'.backend = activePort)]_vars

\* C12 witness: the connection is open on the backend it dialed, both copy
\* goroutines are pumping, and the active port is now another positive port.
C12_Witness ==
    /\ h.backend > 0 /\ activePort > 0 /\ activePort # h.backend
    /\ sock.client = "open" /\ sock.backend = "open"
    /\ \A t \in Tasks : task[t] = "copying"
    /\ rtmpHist.forwarded

\* C13: no panic raised while serving a connection terminates the process,
\* and after a panic of serveRtmp the handler has returned with the client
\* closed.
C13_PanicContained ==
    /\ ~crashed
    /\ (rtmpHist.panicked => h.pc = "returned" /\ sock.client = "closed")

\* C34: once both copy goroutines have finished, serveRtmp eventually
\* returns with the client socket and the backend socket closed.
C34_BothDoneHandlerReturns ==
    (\A t \in Tasks : task[t] = "done")
        ~> (h.pc = "returned" /\ sock.client = "closed" /\ sock.backend = "closed")

\* C27: main never blocks for ever on its closing channel.  Only main
\* receives from closing, so main waiting to send with the buffer full
\* stays there: it closes no listener, waits for no task and never returns.
C27_MainNeverStuckOnClosing ==
    ~(mainPc = "repost" /\ mainClosing = 1)

(***************************************************************************)
(* Claims about the port allocator.                                        *)
(***************************************************************************)
\* C28: when a run of n > 0 consecutive free ports exists, Alloc(n) returns
\* n ascending consecutive ports that were free, no run of n free ports
\* starts below the first of them, and exactly the returned ports move from
\* free to allocated; while Free was never called the allocated ports are
\* PoolLow and the ports right after it, and a block begins after them.
C28_AllocReturnsFirstRun ==
    [][\A n \in AllocSizes \ {0} :
          (Alloc(n) /\ \E p \in poolFree : \A k \in 0..(n - 1) : (p + k) \in poolFree) =>
              LET res == poolLast'.res
                  got == {res[k] : k \in 1..n}
              IN  /\ poolLast'.err = "nil"
                  /\ DOMAIN res = 1..n
                  /\ \A k \in 1..n : res[k] = res[1] + k - 1
                  /\ got \subseteq poolFree
                  /\ \A p \in poolFree :
                        p < res[1] => \E k \in 0..(n - 1) : (p + k) \notin poolFree
                  /\ poolFree' = poolFree \ got
                  /\ poolAllocated' = poolAllocated \cup got
                  /\ ~poolLast.freed =>
                        /\ poolAllocated = PoolLow..(PoolLow + Cardinality(poolAllocated) - 1)
                        /\ res[1] = PoolLow + Cardinality(poolAllocated)]_vars

\* C28 witness: a port freed from above the declared range was returned
\* as part of a block that begins inside the range.
C28_Witness ==
    /\ poolLast.op = "Alloc" /\ poolLast.arg = 2
    /\ poolLast.res = <<PoolHigh, PoolHigh + 1>>
    /\ poolFree # {}

\* C29: when no run of n > 0 consecutive free ports exists, Alloc(n) fails
\* with Exhausted and the free and the allocated ports are what they were.
C29_AllocAllOrNothing ==
    [][\A n \in AllocSizes \ {0} :
          (Alloc(n) /\ ~\E p \in poolFree : \A k \in 0..(n - 1) : (p + k) \in poolFree) =>
              /\ poolLast'.err = "Exhausted"
              /\ poolLast'.res = <<>>
              /\ poolFree' = poolFree
              /\ poolAllocated' = poolAllocated]_vars

\* C29 witness: an Alloc(2) has failed with two ports free that are not
\* consecutive.
C29_Witness ==
    /\ poolLast.op = "Alloc" /\ poolLast.arg = 2 /\ poolLast.err = "Exhausted"
    /\ Cardinality(poolFree) = 2
    /\ poolAllocated # {}

\* C30: with every port allocated, Free(p) and then Alloc(1) returns <<p>>,
\* for p inside and outside the declared range, and leaves no port free, so
\* that a further Alloc(1) fails; Free of a free port changes neither set.
C30_FreeThenAllocReturnsPort ==
    [][/\ \A p \in PortSpace :
             (poolLast.op = "Free" /\ poolLast.arg = p /\ poolFree \subseteq {p} /\ Alloc(1)) =>
                 /\ poolLast'.err = "nil"
                 /\ poolLast'.res = <<p>>
                 /\ poolFree' = {}
                 /\ p \in poolAllocated'
       /\ (poolFree = {} /\ Alloc(1)) =>
             /\ poolLast'.err = "Exhausted"
             /\ poolFree' = {}
       /\ \A p \in PortSpace :
             (p \in poolFree /\ Free(p)) =>
                 /\ poolFree' = poolFree
                 /\ poolAllocated' = poolAllocated]_vars

\* C30 witness: on a pool with the whole range allocated, a port from
\* outside the range was freed and the next Alloc(1) returned it.
C30_Witness ==
    /\ poolLast.op = "Alloc" /\ poolLast.arg = 1
    /\ poolLast.res = <<PoolHigh + 1>>
    /\ poolFree = {}
    /\ poolAllocated = PoolLow..(PoolHigh + 1)

\* C31: Alloc(0) fails with an error whatever the state of the pool, and
\* leaves the free and the allocated ports as they were.
C31_AllocZeroFails ==
    [][Alloc(0) =>
          /\ poolLast'.err # "nil"
          /\ poolLast'.res = <<>>
          /\ poolFree' = poolFree
          /\ poolAllocated' = poolAllocated]_vars

\* C31 witness: Alloc(0) has failed on a pool with every port allocated.
C31_Witness ==
    /\ poolLast.op = "Alloc" /\ poolLast.arg = 0 /\ poolLast.err # "nil"
    /\ poolFree = {}
    /\ PoolLow..PoolHigh \subseteq poolAllocated

(***************************************************************************)
(* Claims about the app Server.                                            *)
(***************************************************************************)
\* C32: the state of the Server changes only from Init to Ready, from Ready
\* to Running, and from Init, Ready or Running to Closed, so Closed is
\* terminal; a Close call that finds Closed changes nothing; ParseConfig
\* outside Init, and PrepareLogger, Initialize and Run outside Ready, panic
\* and leave the state as it is; and a Close call that found the server
\* Running returns only when Run has terminated.
C32_ServerLifecycle ==
    [][/\ srvState' # srvState =>
             <<srvState, srvState'>> \in
                 {<<"Init", "Ready">>, <<"Ready", "Running">>, <<"Init", "Closed">>,
                  <<"Ready", "Closed">>, <<"Running", "Closed">>}
       /\ \A c \in SrvClosers :
             (srvState = "Closed" /\ ServerCloseCheck(c)) =>
                 /\ srvLast'.res = "noop"
                 /\ UNCHANGED <<srvState, srvQuit, srvClosing, srvWg, srvRun>>
       /\ (srvState # "Init" /\ ServerParseConfig) =>
             srvLast'.res = "panic" /\ srvState' = srvState
       /\ (srvState # "Ready" /\ (ServerPrepareLogger \/ ServerInitialize \/ ServerRunEnter)) =>
             srvLast'.res = "panic" /\ srvState' = srvState /\ srvWg' = srvWg /\ srvRun' = srvRun
       /\ \A c \in SrvClosers :
             (srvClose[c].pc # "idle" /\ srvClose'[c].pc = "idle" /\ srvClose'[c].found = "Running") =>
                 srvRun' = "returned"]_vars

\* C32 witness: a Close call that found the server Running has returned
\* after Run left its loop because of the quit notification, and a later
\* lifecycle call has panicked on the Closed server.
C32_Witness ==
    /\ srvState = "Closed"
    /\ srvRun = "returned"
    /\ \E c \in SrvClosers : srvClose[c].pc = "idle" /\ srvClose[c].found = "Running"
    /\ srvLast.op = "ParseConfig" /\ srvLast.res = "panic"
    /\ srvLast.forked

(***************************************************************************)
(* Claims about the control API.                                           *)
(***************************************************************************)
\* C14: in every state of each balancer, between the steps of a request and
\* with requests handled concurrently, activePort is 0 or occurs in ports.
C14_ActivePortKnown ==
    /\ (activePort = 0 \/ hasProxyed(activePort))
    /\ (httpActivePort = 0 \/ HasPort(httpPorts, httpActivePort))

\* C15: a request whose port parameter parses as an integer that is not
\* positive is answered with the error code and writes neither ports nor
\* activePort.
C15_NonPositivePortRejected ==
    \A r \in ApiCallers :
        (api[r].q \in {"-1", "0"}) =>
            /\ ~api[r].wrote
            /\ (api[r].pc = "idle" => api[r].res = "ApiProxyQuery")

\* C16: a request whose port parameter is missing or not an integer is
\* answered with the error code and writes neither ports nor activePort; a
\* request with a positive port is answered with success, and when it
\* returns activePort is that port and ports contains it.
C16_ApiResponses ==
    \A r \in ApiCallers :
        /\ (api[r].q \in {"", "x"} /\ api[r].res # "none") =>
              api[r].res = "ApiProxyQuery" /\ ~api[r].wrote /\ api[r].pc = "idle"
        /\ (api[r].q = "1" /\ api[r].pc = "idle") =>
              api[r].res = "Success" /\ api[r].wrote /\ api[r].known

\* C36: no step of either balancer removes a port from ports, and no port
\* occurs twice in ports, also with requests handled concurrently.
C36_KnownPortsAppendOnlySet ==
    [][/\ \A k \in 1..Len(ports) : HasPort(ports', ports[k])
       /\ \A j, k \in 1..Len(ports') : j # k => ports'[j] # ports'[k]
       /\ \A k \in 1..Len(httpPorts) : HasPort(httpPorts', httpPorts[k])
       /\ \A j, k \in 1..Len(httpPorts') : j # k => httpPorts'[j] # httpPorts'[k]]_vars

====
